---- MODULE Spec2Model ----
(***************************************************************************)
(* Model of the video-subtitle-generator pipeline:                         *)
(*   - the job-state store (src/src/state_manager.py): JobState,           *)
(*     to_dict / from_dict, save_job with its backup protocol, load_job;   *)
(*   - the pipeline orchestrator (src/src/subtitle_processor.py):          *)
(*     process_job, the ten stage handlers, handle_error, resume.          *)
(*                                                                         *)
(* Two specifications share the variables:                                 *)
(*   Spec       one job driven through process_job, with handler           *)
(*              failures, user choices in handle_error, process crashes    *)
(*              and resumes;                                               *)
(*   SpecStore  save_job / load_job applied to arbitrary job states with   *)
(*              I/O failures at the rename, the write and the unlink.      *)
(***************************************************************************)
EXTENDS Integers, Sequences, FiniteSets, TLC

VARIABLES
    job,        \* the in-memory JobState of the running process
    files,      \* the jobs/ directory: file name -> content
    now,        \* time.time()
    pc,         \* position of the process (see the actions)
    idx,        \* index into `stages` of the for loop of process_job
    upl,        \* upload_chunks: the local list uploaded_chunks so far
    client,     \* GCSHandler.client is set (process-local)
    model,      \* AIGenerator.model is set (process-local)
    blobs,      \* blob names present in the job's bucket
    localChunks,\* chunk files present under temp/<job_id>/
    output,     \* merged track files under output/<video_name>/
    completed,  \* history: stages whose handler has returned normally
    ran,        \* history: stages whose handler started in this run
    skipped,    \* history: stages skipped in this run
    doneAtStart,\* history: `completed` when this run started
    loadedStage,\* history: current_stage of the job when this run started
    failedInRun,\* history: this run has persisted FAILED
    faults,     \* history: environment failures injected so far
    crashes,    \* history: process crashes so far
    runs,       \* history: number of process_job runs so far
    lastOp,     \* SpecStore: record of the last store operation
    sv,         \* SpecSaveSteps: the save_job call in progress
    cb,         \* the CircuitBreaker object: failure_count, last_failure_time, state
    probe,      \* SpecBreaker: the call in flight through the breaker
    hist,       \* history: what the calls through the breaker did
    rl,         \* RateLimiter.calls: the recorded call timestamps
    through,    \* history: the times at which calls were let through
    rt,         \* SpecRetry: the frame of RetryHandler.retry
    wk,         \* SpecWorkers: each worker's position and locals
    gen,        \* SpecGenerate: the frame of AIGenerator.generate_subtitles
    mg,         \* SpecMerge: the fragments handed to the merger, its tracks
    ck,         \* SpecChunk: the frame of VideoChunker.split_video
    raisedIn,   \* history: stages whose handler has raised
    redone,     \* history: work repeated on a target that was already there
    jb,         \* SpecJobs: the jobs created, their buckets and the blobs
    tm          \* SpecCleanup: the TempFileManager and the thread inside it

vars == << job, files, now, pc, idx, upl, client, model, blobs, localChunks,
           output, completed, ran, skipped, doneAtStart, loadedStage,
           failedInRun, faults, crashes, runs, lastOp, sv, cb, probe, hist,
           rl, through, rt, wk, gen, mg, ck,
           raisedIn, redone, jb, tm >>

\* the resilience objects of retry_handler.py
resVars == << cb, probe, hist, rl, through, rt, wk >>

\* everything the pipeline's actions leave alone
auxVars == << lastOp, sv, resVars >>

\* the frames of the stage handlers that are modelled step by step
frameVars == << gen, mg, ck, jb, tm >>

\* what every action but a raising handler leaves alone
stageVars == << frameVars, raisedIn >>


procVars == << pc, idx, upl, client, model, blobs, localChunks, output,
               completed, ran, skipped, doneAtStart, loadedStage,
               failedInRun, faults, crashes, runs >>

\* everything the step-by-step models of the stage handlers leave alone,
\* but for the clock
coreVars == << job, files, procVars, lastOp, sv, raisedIn, redone, jb, tm >>

----------------------------------------------------------------------------
(* Bounds *)

NumChunks == 3
MaxFaults == 1
MaxCrashes == 1
MaxRuns == 2
MaxTime == 1

----------------------------------------------------------------------------
(* state_manager.py : ProcessingStage, JobState *)

None == << >>
Some(v) == << v >>
EmptyMap == [ k \in {} |-> None ]

ProcessingStage ==
    [ CREATED |-> 0, VALIDATING |-> 1, ANALYZING |-> 2, CHUNKING |-> 3,
      CONNECTING |-> 4, UPLOADING |-> 5, INITIALIZING |-> 6,
      GENERATING |-> 7, DOWNLOADING |-> 8, MERGING |-> 9,
      FINALIZING |-> 10, COMPLETED |-> 11, FAILED |-> -1 ]

StageNames == DOMAIN ProcessingStage

\* ProcessingStage(value): the member with that value
ProcessingStageOf(v) == CHOOSE n \in StageNames : ProcessingStage[n] = v

\* JobState(job_id, video_path, video_name, languages, enable_sdh) with the
\* dataclass defaults
JobState(job_id, t) ==
    [ job_id |-> job_id, video_path |-> "/in/video.mp4",
      video_name |-> "video", languages |-> << "eng" >>,
      enable_sdh |-> FALSE, current_stage |-> "CREATED",
      created_at |-> t, updated_at |-> t, completed_at |-> None,
      error |-> None, metadata |-> EmptyMap, output_dir |-> None ]

\* JobState.to_dict: asdict, then the enum member replaced by its value
to_dict(j) == [ j EXCEPT !.current_stage = ProcessingStage[j.current_stage] ]

\* mutant of from_dict: the stage is read under a key the record does not
\* have, so the default of data.get(..., 0) is taken
from_dict_default(data) ==
    [ data EXCEPT !.current_stage = ProcessingStageOf(0) ]

\* JobState.from_dict: the value looked up again as an enum member
from_dict(data) ==
    [ data EXCEPT !.current_stage = ProcessingStageOf(data.current_stage) ]

----------------------------------------------------------------------------
(* state_manager.py : the jobs/ directory *)

JobFile(job_id) == << job_id, "json" >>
BackupFile(job_id) == << job_id, "json.bak" >>

\* file content: a complete JSON document or a truncated one
JsonText(data) == [ complete |-> TRUE, data |-> data ]
PartialText == [ complete |-> FALSE ]

Remove(fs, f) == [ g \in DOMAIN fs \ {f} |-> fs[g] ]
WriteFile(fs, f, c) == [ g \in DOMAIN fs \cup {f} |-> IF g = f THEN c ELSE fs[g] ]
\* Path.rename: replaces the target (POSIX)
Rename(fs, from, to) == Remove(WriteFile(fs, to, fs[from]), from)

\* save_job.  rn: the rename to .bak succeeds; wr: outcome of the write
\* ("ok", "open_fails": open() raises and leaves the file as it was,
\* "dump_fails": the file was truncated by open() and json.dump raises);
\* ul: the unlink of the backup succeeds.
save_job(fs, j, t, rn, wr, ul) ==
    LET j1 == [ j EXCEPT !.updated_at = t ]
        jf == JobFile(j.job_id)
        bf == BackupFile(j.job_id)
        f1 == IF jf \in DOMAIN fs /\ rn THEN Rename(fs, jf, bf) ELSE fs
        f2 == CASE wr = "ok" -> WriteFile(f1, jf, JsonText(to_dict(j1)))
                [] wr = "dump_fails" -> WriteFile(f1, jf, PartialText)
                [] OTHER -> f1
        raised == wr # "ok" \/ (bf \in DOMAIN f2 /\ ~ul)
        f3 == IF raised
              THEN IF bf \in DOMAIN f2 THEN Rename(f2, bf, jf) ELSE f2
              ELSE IF bf \in DOMAIN f2 THEN Remove(f2, bf) ELSE f2
    IN  [ files |-> f3, job |-> j1, raised |-> raised ]

\* a save on a healthy disk
save_ok(fs, j, t) == save_job(fs, j, t, TRUE, "ok", TRUE)

\* s occurs in t as a contiguous subsequence (glob "*{job_id}*")
Contains(t, s) ==
    \E i \in 1..(Len(t) - Len(s) + 1) : SubSeq(t, i, i + Len(s) - 1) = s

\* load_job: the files it may open.  The exact file if it exists, else any
\* "*{job_id}*.json" (the glob's order is unspecified)
load_candidates(fs, job_id) ==
    IF JobFile(job_id) \in DOMAIN fs
    THEN { JobFile(job_id) }
    ELSE { f \in DOMAIN fs : f[2] = "json" /\ Contains(f[1], job_id) }

\* load_job: json.load and from_dict of the opened file; None on any error
load_file(fs, f) ==
    IF fs[f].complete THEN Some(from_dict(fs[f].data)) ELSE None

\* load_job: every result it can return
load_job(fs, job_id) ==
    IF load_candidates(fs, job_id) = {}
    THEN { None }
    ELSE { load_file(fs, f) : f \in load_candidates(fs, job_id) }

\* list_jobs: every parsable job_*.json, unparsable files skipped
list_jobs(fs) ==
    { from_dict(fs[f].data) : f \in { g \in DOMAIN fs : g[2] = "json" /\ fs[g].complete } }

----------------------------------------------------------------------------
(* subtitle_processor.py : process_job *)

JOB == << 1 >>

\* the `stages` list of process_job, in its order
stages ==
    << "VALIDATING", "ANALYZING", "CHUNKING", "CONNECTING", "UPLOADING",
       "INITIALIZING", "GENERATING", "DOWNLOADING", "MERGING", "FINALIZING" >>

NumStages == Len(stages)

Chunks == 0..(NumChunks - 1)
\* the list split_video returns: chunk_000, chunk_001, ...
ChunkList == [ i \in 1..NumChunks |-> i - 1 ]

\* the items of a list, as a set
Items(seq) == { seq[i] : i \in DOMAIN seq }

\* the ascending list of a set of chunk numbers (list.sort by chunk number)
RECURSIVE SortedSeq(_)
SortedSeq(S) ==
    IF S = {} THEN << >>
    ELSE LET m == CHOOSE x \in S : \A y \in S : x <= y
         IN  << m >> \o SortedSeq(S \ {m})

Has(j, k) == k \in DOMAIN j.metadata
SetMeta(j, kv) == [ j EXCEPT !.metadata = kv @@ @ ]

\* mutant of ShouldSkip: no stage is ever skipped, a resumed job starts over
ShouldSkip_never(j, stage) == FALSE

\* process_job line 227: the stage is skipped
ShouldSkip(j, stage) ==
    ProcessingStage[j.current_stage] >= ProcessingStage[stage]

CurStage == stages[idx]
InHandler(stage) == pc = "handler" /\ idx \in 1..NumStages /\ stages[idx] = stage

\* process_job is entered with job j
EnterProcessJob(j) ==
    /\ job' = j
    /\ pc' = "loop"
    /\ idx' = 1
    /\ upl' = << >>
    /\ runs' = runs + 1
    /\ ran' = {}
    /\ skipped' = {}
    /\ doneAtStart' = completed
    /\ loadedStage' = j.current_stage
    /\ failedInRun' = FALSE

\* process_single_video: create_job (which saves), then process_job
ProcessSingleVideo ==
    /\ pc = "menu"
    /\ LET s == save_ok(files, JobState(JOB, now), now)
       IN  /\ files' = s.files
           /\ EnterProcessJob(s.job)
    /\ UNCHANGED << now, client, model, blobs, localChunks, output, completed,
                    faults, crashes, auxVars, stageVars, redone >>

\* process_job lines 227-230: "already completed"
SkipStage ==
    /\ pc = "loop" /\ idx <= NumStages
    /\ ShouldSkip(job, CurStage)
    /\ skipped' = skipped \cup {CurStage}
    /\ idx' = idx + 1
    /\ UNCHANGED << job, files, now, pc, upl, client, model, blobs,
                    localChunks, output, completed, ran, doneAtStart,
                    loadedStage, failedInRun, faults, crashes, runs, auxVars,
                    stageVars, redone >>

\* process_job lines 235-241: stage set and saved, then the handler is called
BeginStage ==
    /\ pc = "loop" /\ idx <= NumStages
    /\ ~ShouldSkip(job, CurStage)
    /\ LET j == SetMeta([ job EXCEPT !.current_stage = CurStage ],
                        [ k \in {"current_stage_name"} |-> CurStage ])
           s == save_ok(files, j, now)
       IN  /\ job' = s.job
           /\ files' = s.files
    /\ pc' = "handler"
    /\ upl' = << >>
    /\ ran' = ran \cup {CurStage}
    /\ UNCHANGED << now, idx, client, model, blobs, localChunks, output,
                    completed, skipped, doneAtStart, loadedStage, failedInRun,
                    faults, crashes, runs, auxVars, stageVars, redone >>

\* the handler returned: lines 243-246, on to the next stage
Returned ==
    /\ pc' = "loop"
    /\ idx' = idx + 1
    /\ completed' = completed \cup {CurStage}
    /\ UNCHANGED << failedInRun, skipped, ran, doneAtStart, loadedStage,
                    crashes, runs, now, auxVars, stageVars >>

\* the handler raised e: the except block, lines 248-252, up to the prompt
Raised(j, e) ==
    /\ LET s == save_ok(files, [ j EXCEPT !.current_stage = "FAILED",
                                          !.error = Some(e) ], now)
       IN  /\ job' = s.job
           /\ files' = s.files
    /\ failedInRun' = TRUE
    /\ raisedIn' = raisedIn \cup {CurStage}
    /\ pc' = "prompt"
    /\ UNCHANGED << idx, completed, skipped, ran, doneAtStart, loadedStage,
                    crashes, runs, now, auxVars, frameVars >>

\* a handler that saves the job before it returns
SaveAndReturn(j) ==
    /\ LET s == save_ok(files, j, now)
       IN  /\ job' = s.job
           /\ files' = s.files
    /\ Returned

\* a failure of the environment (file system, network, service)
CanFail == faults < MaxFaults
Fault == faults' = faults + 1
NoFault == faults' = faults

----------------------------------------------------------------------------
(* subtitle_processor.py : the stage handlers *)

ChunkBlob(c) == << "chunks", c >>
SubtitleBlob(c, l) == << "subtitles", c, l >>
Fragment(c, l) == [ chunk |-> c, language |-> l ]

\* validate_input: raises when the file is missing, unsupported or corrupt
validate_input ==
    /\ InHandler("VALIDATING")
    /\ \/ /\ NoFault /\ job' = job /\ files' = files /\ Returned
       \/ /\ CanFail /\ Fault /\ Raised(job, "ValueError")
    /\ UNCHANGED << upl, client, model, blobs, localChunks, output, redone >>

\* analyze_video: records video_info and total_chunks, saves
analyze_video ==
    /\ InHandler("ANALYZING")
    /\ \/ /\ NoFault
          /\ SaveAndReturn(SetMeta(job,
                 [ k \in {"video_info", "total_chunks"} |-> NumChunks ]))
       \/ /\ CanFail /\ Fault /\ Raised(job, "RuntimeError")
    /\ UNCHANGED << upl, client, model, blobs, localChunks, output, redone >>

\* split_video, lines 83-101: ffmpeg is run with overwrite_output for every
\* chunk of the set cs, the chunk file already there or not
Cut(cs) == { << "cut", c >> : c \in cs \cap localChunks }

\* create_chunks: split_video cuts every chunk into temp/<job_id>/, then the
\* chunk list is recorded and saved; a failing cut leaves the earlier chunks
create_chunks ==
    /\ InHandler("CHUNKING")
    /\ \/ /\ NoFault
          /\ localChunks' = localChunks \cup Chunks
          /\ redone' = redone \cup Cut(Chunks)
          /\ SaveAndReturn(SetMeta(job,
                 [ k \in {"chunks", "chunks_created"} |->
                     IF k = "chunks" THEN ChunkList ELSE << NumChunks >> ]))
       \/ /\ CanFail /\ Fault
          /\ \E n \in 0..(NumChunks - 1) :
                 /\ localChunks' = localChunks \cup { c \in Chunks : c < n }
                 /\ redone' = redone \cup Cut({ c \in Chunks : c < n })
          /\ Raised(job, "RuntimeError")
    /\ UNCHANGED << upl, client, model, blobs, output >>

\* connect_gcs: gcs_handler.initialize, create_job_bucket, bucket_name
\* recorded and saved
connect_gcs ==
    /\ InHandler("CONNECTING")
    /\ \/ /\ NoFault
          /\ client' = TRUE
          /\ SaveAndReturn(SetMeta(job,
                 [ k \in {"bucket_name"} |-> << "bucket" >> ]))
       \/ /\ CanFail /\ Fault
          /\ client' \in {client, TRUE}
          /\ Raised(job, "CloudStorageError")
    /\ UNCHANGED << upl, model, blobs, localChunks, output, redone >>

\* upload_chunks, lines 363-364: metadata['chunks'], metadata['bucket_name'];
\* gcs_handler.upload_chunks line 141: self.client.bucket
upload_chunks_ready ==
    Has(job, "chunks") /\ Has(job, "bucket_name") /\ client

upload_chunks_raises ==
    /\ InHandler("UPLOADING")
    /\ ~upload_chunks_ready
    /\ Raised(job, IF Has(job, "chunks") /\ Has(job, "bucket_name")
                   THEN "AttributeError" ELSE "KeyError")
    /\ UNCHANGED << upl, client, model, blobs, localChunks, output, faults, redone >>

\* gcs_handler.upload_chunks, lines 156-157: upload_from_filename is called
\* for chunk c, its blob already in the bucket or not
Put(c) == IF ChunkBlob(c) \in blobs THEN { << "put", c >> } ELSE {}

\* gcs_handler.upload_chunks: one iteration of its loop
upload_one ==
    /\ InHandler("UPLOADING")
    /\ upload_chunks_ready
    /\ Len(upl) < Len(job.metadata["chunks"])
    /\ LET c == job.metadata["chunks"][Len(upl) + 1]
       IN  \/ /\ c \in localChunks
              /\ NoFault
              /\ blobs' = blobs \cup {ChunkBlob(c)}
              /\ upl' = Append(upl, c)
              /\ redone' = redone \cup Put(c)
              /\ UNCHANGED << job, files, pc, idx, completed, failedInRun,
                              skipped, ran, doneAtStart, loadedStage, crashes,
                              runs, now, auxVars, stageVars >>
           \/ /\ c \notin localChunks
              /\ NoFault
              /\ Raised(job, "FileNotFoundError")
              /\ UNCHANGED << blobs, upl, redone >>
           \/ /\ c \in localChunks
              /\ CanFail /\ Fault
              /\ Raised(job, "RuntimeError")
              /\ UNCHANGED << blobs, upl, redone >>
    /\ UNCHANGED << client, model, localChunks, output >>

\* upload_chunks, lines 372-374: uploaded_chunks recorded and saved
upload_finish ==
    /\ InHandler("UPLOADING")
    /\ upload_chunks_ready
    /\ Len(upl) = Len(job.metadata["chunks"])
    /\ NoFault
    /\ SaveAndReturn(SetMeta(job,
           [ k \in {"uploaded_chunks", "chunks_uploaded"} |->
               IF k = "uploaded_chunks" THEN upl ELSE << Len(upl) >> ]))
    /\ UNCHANGED << upl, client, model, blobs, localChunks, output, redone >>

\* initialize_ai: ai_generator.initialize
initialize_ai ==
    /\ InHandler("INITIALIZING")
    /\ \/ /\ NoFault /\ model' = TRUE
          /\ job' = job /\ files' = files /\ Returned
       \/ /\ CanFail /\ Fault /\ model' = model
          /\ Raised(job, "VertexAIError")
    /\ UNCHANGED << upl, client, blobs, localChunks, output, redone >>

\* generate_subtitles.  metadata['uploaded_chunks'] and ['bucket_name'] are
\* read first; ai_generator.generate_subtitles raises on an empty chunk list,
\* swallows every per-item error, and returns the fragments it produced
generate_subtitles ==
    /\ InHandler("GENERATING")
    /\ IF ~(Has(job, "uploaded_chunks") /\ Has(job, "bucket_name"))
       THEN /\ NoFault /\ blobs' = blobs /\ Raised(job, "KeyError")
       ELSE IF job.metadata["uploaded_chunks"] = << >>
       THEN /\ NoFault /\ blobs' = blobs /\ Raised(job, "ValidationError")
       ELSE \E ok \in SUBSET Items(job.metadata["uploaded_chunks"]) :
              /\ ~model => ok = {}
              /\ IF model /\ ok # Items(job.metadata["uploaded_chunks"])
                 THEN CanFail /\ Fault ELSE NoFault
              /\ blobs' = blobs \cup { SubtitleBlob(c, "eng") : c \in ok }
              /\ SaveAndReturn(SetMeta(job,
                     [ k \in {"generated_subtitles", "subtitles_generated"} |->
                         IF k = "generated_subtitles"
                         THEN [ i \in 1..Cardinality(ok) |->
                                  Fragment(SortedSeq(ok)[i], "eng") ]
                         ELSE << Cardinality(ok) >> ]))
    /\ UNCHANGED << upl, client, model, localChunks, output, redone >>

\* download_subtitles: metadata.get('generated_subtitles', []), then
\* metadata['bucket_name']; gcs_handler.download_subtitles skips every
\* fragment whose download fails
download_subtitles ==
    /\ InHandler("DOWNLOADING")
    /\ LET subs == IF Has(job, "generated_subtitles")
                   THEN job.metadata["generated_subtitles"] ELSE << >>
           got == { i \in DOMAIN subs :
                      SubtitleBlob(subs[i].chunk, subs[i].language) \in blobs }
       IN  IF ~Has(job, "bucket_name")
           THEN NoFault /\ Raised(job, "KeyError")
           ELSE IF subs = << >>
           THEN NoFault /\ Raised(job, "RuntimeError")
           ELSE IF ~client
           THEN NoFault /\ Raised(job, "AttributeError")
           ELSE IF got = {}
           THEN NoFault /\ Raised(job, "RuntimeError")
           ELSE \/ /\ NoFault
                   /\ SaveAndReturn(SetMeta(job,
                          [ k \in {"local_subtitles", "subtitles_downloaded"} |->
                              IF k = "local_subtitles"
                              THEN [ i \in 1..Cardinality(got) |->
                                       subs[SortedSeq(got)[i]] ]
                              ELSE << Cardinality(got) >> ]))
                \/ /\ CanFail /\ Fault /\ Raised(job, "RuntimeError")
    /\ UNCHANGED << upl, client, model, blobs, localChunks, output, redone >>

\* subtitle_merger.merge_subtitles: fragments grouped by language, each group
\* sorted by chunk number and written as one track
merge_tracks(subs) ==
    [ l \in { subs[i].language : i \in DOMAIN subs } |->
        SortedSeq({ subs[i].chunk : i \in { n \in DOMAIN subs : subs[n].language = l } }) ]

\* what merge_subtitles writes when it is handed a fragment of every chunk:
\* the output of a complete run
FullOutput == merge_tracks([ i \in 1..NumChunks |-> Fragment(i - 1, "eng") ])

\* merge_subtitles: metadata.get('local_subtitles', []), merged files and
\* output_dir recorded and saved
merge_subtitles ==
    /\ InHandler("MERGING")
    /\ LET subs == IF Has(job, "local_subtitles")
                   THEN job.metadata["local_subtitles"] ELSE << >>
       IN  IF subs = << >>
           THEN NoFault /\ output' = output /\ Raised(job, "RuntimeError")
           ELSE \/ /\ NoFault
                   /\ output' = merge_tracks(subs) @@ output
                   /\ SaveAndReturn(
                          [ SetMeta(job, [ k \in {"merged_files"} |->
                                             DOMAIN merge_tracks(subs) ])
                            EXCEPT !.output_dir = Some("output/video") ])
                \/ /\ CanFail /\ Fault /\ output' = output
                   /\ Raised(job, "RuntimeError")
    /\ UNCHANGED << upl, client, model, blobs, localChunks, redone >>

\* gcs_handler.cleanup_job_data: the chunks' blobs and subtitles/ deleted
cleanup_job_data(bs, chunks) ==
    { b \in bs : b[1] # "subtitles" /\ b \notin { ChunkBlob(c) : c \in Items(chunks) } }

\* finalize_output, lines 486-493: the bucket as cleanup_job_data leaves it,
\* every error of the clean-up ignored
cleaned_bucket ==
    IF client /\ Has(job, "bucket_name")
    THEN cleanup_job_data(blobs, IF Has(job, "uploaded_chunks")
                                 THEN job.metadata["uploaded_chunks"]
                                 ELSE << >>)
    ELSE blobs

\* finalize_output: output verified, temp files removed, bucket cleaned
\* (errors of the clean-up ignored), output_files recorded and saved; the
\* save of line 496 comes last and raises when the write fails
finalize_output ==
    /\ InHandler("FINALIZING")
    /\ IF job.output_dir = None
       THEN /\ NoFault /\ Raised(job, "TypeError")
            /\ UNCHANGED << blobs, localChunks >>
       ELSE IF DOMAIN output = {}
       THEN /\ NoFault /\ Raised(job, "RuntimeError")
            /\ UNCHANGED << blobs, localChunks >>
       ELSE /\ localChunks' = {}
            /\ blobs' = cleaned_bucket
            /\ \/ /\ NoFault
                  /\ SaveAndReturn(SetMeta(job,
                         [ k \in {"output_files"} |-> DOMAIN output ]))
               \/ /\ CanFail /\ Fault
                  /\ Raised(SetMeta(job,
                         [ k \in {"output_files"} |-> DOMAIN output ]),
                         "OSError")
    /\ UNCHANGED << upl, client, model, output, redone >>

----------------------------------------------------------------------------
(* subtitle_processor.py : handle_error, the end of process_job, resume *)

\* handle_error: the user's choice at the prompt.  "1" (retry) and "2" (skip)
\* return True, and the for loop of process_job goes on with the next stage;
\* "3" returns False; "4" marks the job FAILED, saves and returns False
handle_error(choice) ==
    /\ pc = "prompt"
    /\ CASE choice = 1 ->
              /\ job' = [ job EXCEPT !.error = None ]
              /\ files' = files /\ pc' = "loop" /\ idx' = idx + 1
         [] choice = 2 ->
              /\ job' = job
              /\ files' = files /\ pc' = "loop" /\ idx' = idx + 1
         [] choice = 3 ->
              /\ job' = job
              /\ files' = files /\ pc' = "done" /\ idx' = idx
         [] OTHER ->
              /\ LET s == save_ok(files, [ job EXCEPT !.current_stage = "FAILED" ], now)
                 IN  job' = s.job /\ files' = s.files
              /\ pc' = "done" /\ idx' = idx
    /\ UNCHANGED << now, upl, client, model, blobs, localChunks, output,
                    completed, ran, skipped, doneAtStart, loadedStage,
                    failedInRun, faults, crashes, runs, auxVars, stageVars, redone >>

\* process_job lines 257-278: after the loop, COMPLETED unless FAILED
finish_job ==
    /\ pc = "loop" /\ idx = NumStages + 1
    /\ IF job.current_stage # "FAILED"
       THEN LET s == save_ok(files, [ job EXCEPT !.current_stage = "COMPLETED",
                                                 !.completed_at = Some(now) ], now)
            IN  job' = s.job /\ files' = s.files
       ELSE job' = job /\ files' = files
    /\ pc' = "done"
    /\ UNCHANGED << now, idx, upl, client, model, blobs, localChunks, output,
                    completed, ran, skipped, doneAtStart, loadedStage,
                    failedInRun, faults, crashes, runs, auxVars, stageVars, redone >>

\* the JobState of a process that holds none
NoJob == JobState(<< >>, 0)

\* the process ends: killed at any point of a run (a crash), or by leaving
\* the program after a run.  Nothing of the process survives.
ProcessGone ==
    /\ job' = NoJob
    /\ pc' = "dead"
    /\ idx' = 1
    /\ upl' = << >>
    /\ client' = FALSE
    /\ model' = FALSE
    /\ UNCHANGED << files, now, blobs, localChunks, output, completed, ran,
                    skipped, doneAtStart, loadedStage, failedInRun, faults,
                    runs, auxVars, stageVars, redone >>

Crash ==
    /\ pc \in {"loop", "handler", "prompt"}
    /\ crashes < MaxCrashes
    /\ crashes' = crashes + 1
    /\ ProcessGone

Exit ==
    /\ pc = "done"
    /\ crashes' = crashes
    /\ ProcessGone

\* main, lines 771-778: --resume <job_id> in a new process
resume_cli ==
    /\ pc = "dead"
    /\ runs < MaxRuns
    /\ \E r \in load_job(files, JOB) :
          /\ r # None
          /\ EnterProcessJob(r[1])
    /\ UNCHANGED << files, now, client, model, blobs, localChunks, output,
                    completed, faults, crashes, auxVars, stageVars, redone >>

\* resume_job: the menu entry, in the process that ran the job before;
\* offers the jobs of list_jobs that are not COMPLETED
resume_job ==
    /\ pc = "done"
    /\ runs < MaxRuns
    /\ \E j \in { x \in list_jobs(files) : x.current_stage # "COMPLETED" } :
          EnterProcessJob(j)
    /\ UNCHANGED << files, now, client, model, blobs, localChunks, output,
                    completed, faults, crashes, auxVars, stageVars, redone >>

----------------------------------------------------------------------------
(* state_manager.py : save_job, one file-system call at a time *)

\* no save in progress
NoSave == [ step |-> "idle", job |-> NoJob, prev |-> {} ]

----------------------------------------------------------------------------
(* retry_handler.py : CircuitBreaker *)

\* time.time() is counted in tenths of a second
Second == 10

failure_threshold == 5
recovery_timeout == 60 * Second

\* CircuitBreaker.__init__
CircuitBreaker ==
    [ failure_count |-> 0, last_failure_time |-> None, state |-> "CLOSED" ]

\* mutant of should_attempt_reset: the time since the last failure is ignored
should_attempt_reset_always(b, t) == TRUE

\* CircuitBreaker._should_attempt_reset at time t
should_attempt_reset(b, t) ==
    IF b.last_failure_time = None
    THEN TRUE
    ELSE t - b.last_failure_time[1] >= recovery_timeout

\* mutant of on_success: the breaker closes but keeps its failure count
on_success_keep(b) == [ b EXCEPT !.state = "CLOSED" ]

\* CircuitBreaker._on_success
on_success(b) == [ b EXCEPT !.failure_count = 0, !.state = "CLOSED" ]

\* mutant of on_failure: the time of the failure is recorded only when the
\* breaker has none yet
on_failure_stale(b, t) ==
    [ b EXCEPT !.failure_count = @ + 1,
               !.last_failure_time = IF @ = None THEN Some(t) ELSE @,
               !.state = IF b.failure_count + 1 >= failure_threshold
                         THEN "OPEN" ELSE @ ]

\* CircuitBreaker._on_failure at time t
on_failure(b, t) ==
    [ b EXCEPT !.failure_count = @ + 1,
               !.last_failure_time = Some(t),
               !.state = IF b.failure_count + 1 >= failure_threshold
                         THEN "OPEN" ELSE @ ]

\* CircuitBreaker.call, lines 78-89: the call is refused
call_refused(b, t) == b.state = "OPEN" /\ ~should_attempt_reset(b, t)

\* CircuitBreaker.call, lines 78-80: the breaker as func is invoked
call_admitted(b) ==
    IF b.state = "OPEN" THEN [ b EXCEPT !.state = "HALF_OPEN" ] ELSE b

\* no call in flight
NoProbe == << >>

\* history of the calls through the breaker: consecutive failures of the
\* invoked calls, the time the breaker last turned OPEN, the last call's
\* outcome, the breaker's state when that outcome arrived, its time, the time
\* of the last failure, and counters
NoHist ==
    [ consec |-> 0, openedAt |-> None, last |-> "none", before |-> "CLOSED",
      lastAt |-> 0, lastFailAt |-> None, invoked |-> 0, refused |-> 0,
      successes |-> 0, fails |-> 0, advances |-> 0 ]

----------------------------------------------------------------------------
(* retry_handler.py : RateLimiter *)

\* the 60 of lines 316 and 321, and the 0.1 of line 321
Window == 60 * Second
Buffer == Second \div 10

\* RateLimiter.calls_per_minute
calls_per_minute == 2

RECURSIVE MinOf(_)
MinOf(seq) ==
    IF Len(seq) = 1 THEN seq[1]
    ELSE LET m == MinOf(Tail(seq)) IN IF seq[1] < m THEN seq[1] ELSE m

Max(a, b) == IF a >= b THEN a ELSE b

\* line 316: the recorded calls younger than one minute
recent(calls, t) == SelectSeq(calls, LAMBDA c : t - c < Window)

\* line 318: the limiter is full
limiter_full(calls) == Len(calls) >= calls_per_minute

\* RateLimiter.acquire at time t: the new list of calls and the delay returned
acquire(calls, t) ==
    LET kept == recent(calls, t)
    IN  IF limiter_full(kept)
        THEN [ calls |-> kept,
               delay |-> Max(0, Window - (t - MinOf(kept)) + Buffer) ]
        ELSE [ calls |-> Append(kept, t), delay |-> 0 ]

----------------------------------------------------------------------------
(* exceptions.py, retry_handler.py : RetryHandler *)

RETRYABLE_ERRORS ==
    { "NetworkError", "CloudStorageError", "QuotaExceededError", "RetryableError" }

NON_RETRYABLE_ERRORS ==
    { "ConfigurationError", "ValidationError", "AuthenticationError",
      "NonRetryableError" }

\* _is_retryable_error, lines 199-203
retryable_patterns ==
    { "timeout", "connection", "network", "temporary", "rate limit", "quota",
      "throttle", "busy", "unavailable", "service error", "502", "503", "504" }

\* an exception: its class and the words its message contains
Error(cls, words) == [ cls |-> cls, words |-> words ]

\* RetryHandler._is_retryable_error
is_retryable_error(e) ==
    IF e.cls \in NON_RETRYABLE_ERRORS THEN FALSE
    ELSE IF e.cls \in RETRYABLE_ERRORS THEN TRUE
    ELSE e.words \cap retryable_patterns # {}

\* texts of the exceptions raised by the Vertex AI call, each by the words it
\* contains
RawTexts ==
    { {}, {"quota"}, {"permission"}, {"safety"}, {"safety", "timeout"},
      {"timeout"} }

\* ai_generator._generate_subtitle_for_chunk, lines 279-299: the exception
\* raised for an exception of the model call whose text holds the words raw;
\* the new message is a prefix followed by the old text
classify(raw) ==
    IF "quota" \in raw \/ "rate limit" \in raw
    THEN Error("SubtitleGenerationError", raw \cup {"quota", "rate limit"})
    ELSE IF "permission" \in raw \/ "access" \in raw
    THEN Error("AuthenticationError", raw \cup {"access"})
    ELSE IF "safety" \in raw \/ "blocked" \in raw
    THEN Error("SubtitleGenerationError", raw \cup {"safety", "blocked"})
    ELSE Error("VertexAIError", raw)

\* the exceptions the retried functions raise: those of
\* _generate_subtitle_for_chunk, and the tagged ones of the other callers
FuncErrors ==
    { classify(raw) : raw \in RawTexts }
    \cup { Error("ValidationError", {}), Error("ConfigurationError", {}),
           Error("CloudStorageError", {}), Error("NetworkError", {}) }

\* CircuitBreaker.call, line 82: the exception of a refused call
CircuitOpen == Error("NonRetryableError", {"circuit breaker is open"})

\* RetryHandler.retry_configs, lines 124-130
Profiles == { "default", "network", "storage", "ai", "quota" }

\* mutant of max_attempts: the loop runs one attempt more, range(1, n + 2)
max_attempts_one_more(p) ==
    CASE p = "network" -> 6
      [] p = "storage" -> 5
      [] p = "ai" -> 4
      [] p = "quota" -> 3
      [] OTHER -> 4

max_attempts(p) ==
    CASE p = "network" -> 5
      [] p = "storage" -> 4
      [] p = "ai" -> 3
      [] p = "quota" -> 2
      [] OTHER -> 3

\* base_delay and max_delay, in tenths of a second
base_delay(p) ==
    CASE p = "network" -> 2 * Second
      [] p = "storage" -> 15
      [] p = "ai" -> 3 * Second
      [] p = "quota" -> 60 * Second
      [] OTHER -> Second

max_delay(p) ==
    CASE p = "network" -> 120 * Second
      [] p = "storage" -> 90 * Second
      [] p = "ai" -> 180 * Second
      [] p = "quota" -> 300 * Second
      [] OTHER -> 60 * Second

RECURSIVE Pow2(_)
Pow2(n) == IF n <= 0 THEN 1 ELSE 2 * Pow2(n - 1)

\* RetryConfig.calculate_delay: the delays it can return for an attempt; the
\* jitter is a draw from [0, delay * 0.1]
calculate_delay(p, attempt) ==
    IF attempt <= 0 THEN {0}
    ELSE LET delay == base_delay(p) * Pow2(attempt - 1)
         IN  { IF delay + jitter <= max_delay(p) THEN delay + jitter
               ELSE max_delay(p) : jitter \in {0, delay \div 10} }

\* no retry call in progress
NoRetry ==
    [ status |-> "idle", config |-> "default", key |-> FALSE, attempt |-> 0,
      invoked |-> 0, slept |-> 0, delay |-> 0, err |-> None, prevErr |-> None,
      used |-> 0 ]

----------------------------------------------------------------------------
(* retry_handler.py : the module-level objects used by several threads *)

NumWorkers == 2
Workers == 1..NumWorkers

\* a worker thread outside of any call
Idle == [ pc |-> "idle", t |-> 0, tmp |-> << >>, n |-> 0 ]

----------------------------------------------------------------------------
(* ai_generator.py : AIGenerator.generate_subtitles *)

\* the language lists of a job
GenLanguages == { << "eng" >>, << "eng", "ben" >>, << "hin" >> }

\* subtitle_types, lines 135-138
subtitle_types(sdh) == IF sdh THEN << "regular", "sdh" >> ELSE << "regular" >>

\* total_tasks, lines 130 and 136-138
total_tasks(g) == g.chunks * Len(g.languages) * Len(subtitle_types(g.sdh))

\* the k-th work item in the order of the three nested loops, lines 142-150
TaskAt(g, k) ==
    LET nt == Len(subtitle_types(g.sdh))
        nl == Len(g.languages)
    IN  [ chunk |-> (k - 1) \div (nl * nt),
          language |-> g.languages[(((k - 1) \div nt) % nl) + 1],
          sdh |-> subtitle_types(g.sdh)[((k - 1) % nt) + 1] = "sdh" ]

\* texts of the exceptions of the model call met while generating
GenTexts == { {}, {"quota"}, {"permission"} }

\* what blob.upload_from_string raises, line 174
UploadFailed == Error("Exception", {"upload"})

\* no generate_subtitles call in progress; bypassed counts the model
\* invocations made with no wait_if_needed before them
NoGenerate ==
    [ status |-> "idle", chunks |-> 0, languages |-> << >>, sdh |-> FALSE,
      i |-> 0, attempt |-> 0, generated |-> << >>, completed_tasks |-> 0,
      results |-> << >>, dispatched |-> {}, bypassed |-> 0 ]

\* _generate_subtitle_for_chunk, lines 216-219: the Hindi special case, which
\* returns _generate_hindi_subtitle before the rate limiter of line 226
hindi_dual(task) == task.language = "hin" /\ ~task.sdh

\* mutant of record_task: an item's exception leaves the loops
record_task_cancel(g, kind, err, raw) ==
    [ g EXCEPT !.generated = IF kind = "content"
                             THEN Append(@, TaskAt(g, g.i)) ELSE @,
               !.completed_tasks = @ + 1,
               !.results = Append(@, [ kind |-> kind, err |-> err,
                                       raw |-> raw ]),
               !.i = @ + 1,
               !.attempt = 1,
               !.status = IF g.i + 1 > total_tasks(g) \/ kind = "raised"
                          THEN "returned" ELSE "call" ]

\* lines 151-198: the end of one work item, whose call returned a fragment
\* that was stored (content), returned None (none) or raised (raised): the
\* fragment is appended, the exception is logged, completed_tasks counts the
\* item and the loops go on
record_task(g, kind, err, raw) ==
    [ g EXCEPT !.generated = IF kind = "content"
                             THEN Append(@, TaskAt(g, g.i)) ELSE @,
               !.completed_tasks = @ + 1,
               !.results = Append(@, [ kind |-> kind, err |-> err,
                                       raw |-> raw ]),
               !.i = @ + 1,
               !.attempt = 1,
               !.status = IF g.i + 1 > total_tasks(g)
                          THEN "returned" ELSE "call" ]

----------------------------------------------------------------------------
(* ai_generator.py : _parse_srt_response; subtitle_merger.py : SubtitleMerger *)

\* processing.chunk_duration, in seconds
chunk_duration == 60

\* an SRT timestamp HH:MM:SS,mmm by its fields
Timestamp(h, m, s, ms) == [ h |-> h, m |-> m, s |-> s, ms |-> ms ]

\* SubtitleMerger._timestamp_to_seconds, in milliseconds.  The times of this
\* model are whole and half seconds, which the floats of the code hold
\* exactly.
timestamp_to_seconds(ts) == ((ts.h * 60 + ts.m) * 60 + ts.s) * 1000 + ts.ms

\* SubtitleMerger._seconds_to_timestamp
seconds_to_timestamp(x) ==
    Timestamp(x \div 3600000, (x % 3600000) \div 60000,
              (x % 60000) \div 1000, x % 1000)

\* the lines of an SRT text: a number, a time range, a line of text, an
\* empty line
NoTime == Timestamp(0, 0, 0, 0)
NumLine(n) == [ k |-> "num", n |-> n, start |-> NoTime, end |-> NoTime, t |-> "" ]
TimeLine(a, b) == [ k |-> "time", n |-> 0, start |-> a, end |-> b, t |-> "" ]
TextLine(t) == [ k |-> "text", n |-> 0, start |-> NoTime, end |-> NoTime, t |-> t ]
BlankLine == [ k |-> "blank", n |-> 0, start |-> NoTime, end |-> NoTime, t |-> "" ]

\* one cue the model hears in a chunk
Cue(a, b, t) == [ start |-> a, end |-> b, text |-> t ]

\* the text of a model response: the cues as SRT blocks, numbered from 1,
\* with an empty line between two blocks
RECURSIVE ResponseText(_, _)
ResponseText(cues, k) ==
    IF k > Len(cues) THEN << >>
    ELSE (IF k > 1 THEN << BlankLine >> ELSE << >>)
         \o << NumLine(k), TimeLine(cues[k].start, cues[k].end),
               TextLine(cues[k].text) >>
         \o ResponseText(cues, k + 1)

\* AIGenerator._parse_srt_response, lines 441-458: every line that is not
\* empty is kept, followed by a newline; None when nothing is left
parse_srt_response(lines) ==
    LET final_srt == SelectSeq(lines, LAMBDA l : l.k # "blank")
    IN  IF final_srt = << >> THEN None ELSE Some(final_srt)

\* re.split(r'\n\s*\n', content): the blocks between empty lines
RECURSIVE Blocks(_, _)
Blocks(lines, cur) ==
    IF lines = << >> THEN (IF cur = << >> THEN << >> ELSE << cur >>)
    ELSE IF Head(lines).k = "blank"
         THEN (IF cur = << >> THEN << >> ELSE << cur >>)
              \o Blocks(Tail(lines), << >>)
         ELSE Blocks(Tail(lines), Append(cur, Head(lines)))

\* SubtitleMerger._parse_srt_content, one block, lines 209-236: at least
\* three lines, a number, a time range; the text is every line after them
ParseBlock(block) ==
    IF Len(block) >= 3 /\ block[1].k = "num" /\ block[2].k = "time"
    THEN << [ number |-> block[1].n, start |-> block[2].start,
              end |-> block[2].end, text |-> SubSeq(block, 3, Len(block)) ] >>
    ELSE << >>

RECURSIVE ParseBlocks(_)
ParseBlocks(blocks) ==
    IF blocks = << >> THEN << >>
    ELSE ParseBlock(Head(blocks)) \o ParseBlocks(Tail(blocks))

\* SubtitleMerger._parse_srt_content
parse_srt_content(content) == ParseBlocks(Blocks(content, << >>))

\* the name of chunk i, video_chunker.py line 78
ChunkName(i) == << "chunk_", i, ".mp4" >>

\* SubtitleMerger._extract_chunk_number: the digits after 'chunk_'
extract_chunk_number(chunk) == IF chunk[1] = "chunk_" THEN chunk[2] ELSE 0

\* lines 167-183: the entries of one fragment, shifted and numbered from
\* subtitle_counter
RECURSIVE ShiftEntries(_, _, _)
ShiftEntries(entries, offset, counter) ==
    IF entries = << >> THEN << >>
    ELSE LET e == Head(entries)
         IN  << [ seq |-> counter,
                  start |-> seconds_to_timestamp(
                                timestamp_to_seconds(e.start) + offset),
                  end |-> seconds_to_timestamp(
                                timestamp_to_seconds(e.end) + offset),
                  text |-> e.text ] >>
             \o ShiftEntries(Tail(entries), offset, counter + 1)

\* SubtitleMerger._merge_srt_files, lines 134-183, over the fragments of one
\* track, given the entries merged so far
RECURSIVE merge_srt_files(_, _)
merge_srt_files(subtitles, merged) ==
    IF subtitles = << >> THEN merged
    ELSE LET subtitle == Head(subtitles)
             entries == parse_srt_content(subtitle.content)
             chunk_number == extract_chunk_number(subtitle.chunk)
             time_offset == chunk_duration * 1000 * chunk_number
         IN  merge_srt_files(Tail(subtitles),
                 merged \o ShiftEntries(entries, time_offset, Len(merged) + 1))

\* language_groups keys, lines 37-40
GroupKey(subtitle) ==
    << subtitle.language, IF subtitle.sdh THEN "_sdh" ELSE "" >>

\* a stable sort by chunk number
RECURSIVE StableSort(_)
StableSort(subtitles) ==
    IF subtitles = << >> THEN << >>
    ELSE LET rest == StableSort(Tail(subtitles))
             x == Head(subtitles)
             n == extract_chunk_number(x.chunk)
             before == SelectSeq(rest,
                          LAMBDA y : extract_chunk_number(y.chunk) < n)
             after == SelectSeq(rest,
                          LAMBDA y : extract_chunk_number(y.chunk) >= n)
         IN  before \o << x >> \o after

\* mutant of sort_by_chunk: the list is left as it came
sort_by_chunk_unsorted(subtitles) == subtitles

\* line 50: lang_subtitles.sort(key=chunk number)
sort_by_chunk(subtitles) == StableSort(subtitles)

\* SubtitleMerger.merge_subtitles, lines 36-75: the tracks written, by
\* language key; a track without entries is not written
merger_merge_subtitles(subtitles) ==
    LET keys == { GroupKey(subtitles[i]) : i \in DOMAIN subtitles }
        track(key) ==
            merge_srt_files(
                sort_by_chunk(SelectSeq(subtitles,
                                        LAMBDA x : GroupKey(x) = key)),
                << >>)
    IN  [ key \in { k \in keys : track(k) # << >> } |-> track(key) ]

\* no merge_subtitles call yet
NoMerge == [ status |-> "idle", subtitles |-> << >>, cues |-> << >>,
             out |-> << >> ]

----------------------------------------------------------------------------
(* video_chunker.py : VideoChunker *)

\* VideoChunker.analyze_video, line 32, for a duration in milliseconds and a
\* chunk length in seconds: int((duration + chunk_duration - 1) //
\* chunk_duration)
total_chunks(duration, len) ==
    (duration + 1000 * len - 1000) \div (1000 * len)

\* split_video, lines 70-77: start and duration of chunk i of n, in
\* milliseconds
chunk_start(i, len) == i * 1000 * len

chunk_length(i, n, duration, len) ==
    IF i = n - 1 THEN duration - chunk_start(i, len) ELSE 1000 * len

\* no video analysed yet
NoChunking ==
    [ status |-> "idle", duration |-> 0, len |-> 1, total_chunks |-> 0,
      chunks |-> << >> ]

----------------------------------------------------------------------------
(* state_manager.py : create_job; gcs_handler.py : the job's bucket *)

\* uuid.uuid4().hex[:6], line 68: six hexadecimal digits drawn at random
Suffixes == { "00a1f3", "7c2e90" }

\* create_job, line 68: f"job_{int(time.time())}_{uuid.uuid4().hex[:6]}"
new_job_id(t, u) == << "job", ToString(t), u >>

\* create_job, lines 66-80: the JobState of the video, saved at once
create_job(fs, video, t, u) ==
    save_ok(fs, [ JobState(new_job_id(t, u), t) EXCEPT !.video_path = video ], t)

\* gcp.bucket_mode of the configuration
BucketModes == { "create_new", "use_existing" }

\* create_job_bucket, lines 85-136: the name of the bucket it returns, the
\* configured one or f"subtitle-gen-{project_id}-{int(time.time())}"
create_job_bucket(mode, t) ==
    IF mode = "use_existing" THEN << "existing_bucket" >>
    ELSE << "subtitle-gen", "project", ToString(t) >>

\* the blobs of bucket b: name -> the job that wrote it last
BlobsOf(store, b) == { k[2] : k \in { x \in DOMAIN store : x[1] = b } }

\* no job created: ids in the order of creation, each job's bucket and
\* uploaded_chunks, the blobs of all buckets, and the history: the ids whose
\* record was written over, the pairs << m, n >> of a job m that replaced
\* and of a job m that deleted a blob of job n, the last load_job
NoJobs ==
    [ ids |-> << >>, bucket |-> << >>, uploaded |-> << >>,
      store |-> EmptyMap, clobbered |-> {}, overwritten |-> {},
      removed |-> {}, loaded |-> None ]

----------------------------------------------------------------------------
(* resource_manager.py : TempFileManager *)

\* TempFileManager.__init__, lines 40-51, and the thread that calls it: the
\* tracked sets, the paths on disk, the contexts that are open, the lock
\* (threading.Lock, not reentrant), the position of the thread, the path it
\* is removing, the method that called _safe_remove_*, and the paths
\* cleanup_all has still to visit
TempFileManager ==
    [ tracked_files |-> {}, tracked_dirs |-> {}, disk |-> {}, open |-> {},
      lock |-> FALSE, pc |-> "idle", path |-> None, caller |-> "none",
      todo |-> {} ]

IsFile(p) == p[1] = "file"

\* tracked_files.discard / tracked_dirs.discard, lines 169 and 182
discard(t, p) ==
    IF IsFile(p) THEN [ t EXCEPT !.tracked_files = @ \ {p} ]
    ELSE [ t EXCEPT !.tracked_dirs = @ \ {p} ]

\* _safe_remove_* returns to the method that called it
after_remove(t) ==
    [ t EXCEPT !.pc = IF t.caller = "cleanup_all" THEN "loop" ELSE "idle",
               !.path = None ]

----------------------------------------------------------------------------
(* Spec: one job through the pipeline *)

NoOp == [ op |-> "none", id |-> << >>, raised |-> FALSE, saved |-> None,
          prev |-> {}, result |-> None ]

Init ==
    /\ job = NoJob
    /\ files = EmptyMap
    /\ now = 0
    /\ pc = "menu"
    /\ idx = 1
    /\ upl = << >>
    /\ client = FALSE
    /\ model = FALSE
    /\ blobs = {}
    /\ localChunks = {}
    /\ output = EmptyMap
    /\ completed = {}
    /\ ran = {}
    /\ skipped = {}
    /\ doneAtStart = {}
    /\ loadedStage = "CREATED"
    /\ failedInRun = FALSE
    /\ faults = 0
    /\ crashes = 0
    /\ runs = 0
    /\ lastOp = NoOp
    /\ sv = NoSave
    /\ cb = CircuitBreaker
    /\ probe = NoProbe
    /\ hist = NoHist
    /\ rl = << >>
    /\ through = << >>
    /\ rt = NoRetry
    /\ wk = [ w \in Workers |-> Idle ]
    /\ gen = NoGenerate
    /\ mg = NoMerge
    /\ ck = NoChunking
    /\ raisedIn = {}
    /\ redone = {}
    /\ jb = NoJobs
    /\ tm = TempFileManager

Next ==
    \/ ProcessSingleVideo
    \/ SkipStage
    \/ BeginStage
    \/ validate_input
    \/ analyze_video
    \/ create_chunks
    \/ connect_gcs
    \/ upload_chunks_raises
    \/ upload_one
    \/ upload_finish
    \/ initialize_ai
    \/ generate_subtitles
    \/ download_subtitles
    \/ merge_subtitles
    \/ finalize_output
    \/ \E choice \in 1..4 : handle_error(choice)
    \/ finish_job
    \/ Crash
    \/ Exit
    \/ resume_cli
    \/ resume_job

Spec == Init /\ [][Next]_vars

\* the record of the job on disk, when it is there and parsable
OnDisk == JobFile(JOB) \in DOMAIN files /\ files[JobFile(JOB)].complete
Persisted == from_dict(files[JobFile(JOB)].data)

TypeOK ==
    /\ pc \in {"menu", "loop", "handler", "prompt", "done", "dead"}
    /\ idx \in 1..(NumStages + 1)
    /\ job.current_stage \in StageNames
    /\ faults \in 0..MaxFaults
    /\ pc # "menu" => OnDisk

----------------------------------------------------------------------------
(* SpecStore: save_job, load_job and delete_job on arbitrary job states *)

\* delete_job: the record and its backup unlinked
delete_job(fs, job_id) ==
    IF JobFile(job_id) \in DOMAIN fs
    THEN Remove(Remove(fs, JobFile(job_id)), BackupFile(job_id))
    ELSE fs

\* job states handed to save_job: every stage, FAILED included; metadata,
\* error, completed_at and output_dir unset or set
JobStates ==
    { [ JobState(JOB, 0) EXCEPT !.current_stage = st ] : st \in StageNames }
    \cup
    { [ JobState(JOB, 0) EXCEPT
          !.current_stage = st,
          !.metadata = [ k \in {"chunks_created", "chunks_uploaded"} |->
                           IF k = "chunks_created" THEN << 5 >> ELSE << 3 >> ],
          !.error = Some("RuntimeError"),
          !.completed_at = Some(0),
          !.output_dir = Some("output/video") ] : st \in StageNames }

\* ids handed to load_job and delete_job: the job's and an unknown one
LoadArgs == { JOB, << 2 >> }

WriteOutcomes == { "ok", "open_fails", "dump_fails" }

StoreSave ==
    \E j \in JobStates, rn \in BOOLEAN, wr \in WriteOutcomes, ul \in BOOLEAN :
        LET s == save_job(files, j, now, rn, wr, ul)
        IN  /\ files' = s.files
            /\ lastOp' = [ op |-> "save", id |-> j.job_id, raised |-> s.raised,
                           saved |-> IF s.raised THEN None ELSE Some(s.job),
                           prev |-> IF s.raised THEN load_job(files, j.job_id)
                                    ELSE {},
                           result |-> None ]
            /\ UNCHANGED << job, now, procVars, sv, resVars, stageVars, redone >>

StoreLoad ==
    \E id \in LoadArgs :
        \E r \in load_job(files, id) :
            /\ lastOp' = [ op |-> "load", id |-> id, raised |-> FALSE,
                           saved |-> None, prev |-> {}, result |-> r ]
            /\ UNCHANGED << job, files, now, procVars, sv, resVars, stageVars, redone >>

StoreDelete ==
    \E id \in LoadArgs :
        /\ JobFile(id) \in DOMAIN files
        /\ files' = delete_job(files, id)
        /\ lastOp' = [ op |-> "delete", id |-> id, raised |-> FALSE,
                       saved |-> None, prev |-> {}, result |-> None ]
        /\ UNCHANGED << job, now, procVars, sv, resVars, stageVars, redone >>

Tick ==
    /\ now < MaxTime
    /\ now' = now + 1
    /\ UNCHANGED << job, files, lastOp, procVars, sv, resVars, stageVars, redone >>

NextStore ==
    \/ StoreSave
    \/ StoreLoad
    \/ StoreDelete
    \/ Tick

SpecStore == Init /\ [][NextStore]_vars

----------------------------------------------------------------------------
(* SpecSaveSteps: save_job one file-system call at a time, with readers and
   process crashes between the calls *)

\* save_job is entered with job j: line 84
SaveBegin ==
    /\ sv.step \in {"idle", "crashed"}
    /\ \E j \in JobStates :
          sv' = [ step |-> "start", job |-> [ j EXCEPT !.updated_at = now ],
                  prev |-> load_job(files, j.job_id) ]
    /\ UNCHANGED << job, files, now, lastOp, procVars, resVars, stageVars, redone >>

\* lines 88-93: the existing record is renamed to the backup
SaveRename ==
    /\ sv.step = "start"
    /\ files' = IF JobFile(sv.job.job_id) \in DOMAIN files
                THEN Rename(files, JobFile(sv.job.job_id), BackupFile(sv.job.job_id))
                ELSE files
    /\ sv' = [ sv EXCEPT !.step = "backed" ]
    /\ UNCHANGED << job, now, lastOp, procVars, resVars, stageVars, redone >>

\* line 96: open(job_file, 'w') creates the file empty
SaveOpen ==
    /\ sv.step = "backed"
    /\ files' = WriteFile(files, JobFile(sv.job.job_id), PartialText)
    /\ sv' = [ sv EXCEPT !.step = "opened" ]
    /\ UNCHANGED << job, now, lastOp, procVars, resVars, stageVars, redone >>

\* line 97: json.dump, and the file closed
SaveDump ==
    /\ sv.step = "opened"
    /\ files' = WriteFile(files, JobFile(sv.job.job_id), JsonText(to_dict(sv.job)))
    /\ sv' = [ sv EXCEPT !.step = "written" ]
    /\ UNCHANGED << job, now, lastOp, procVars, resVars, stageVars, redone >>

\* lines 100-102: the backup is removed, save_job returns
SaveUnlink ==
    /\ sv.step = "written"
    /\ files' = IF BackupFile(sv.job.job_id) \in DOMAIN files
                THEN Remove(files, BackupFile(sv.job.job_id))
                ELSE files
    /\ sv' = [ sv EXCEPT !.step = "idle" ]
    /\ UNCHANGED << job, now, lastOp, procVars, resVars, stageVars, redone >>

\* the process is killed between two calls of save_job
SaveCrash ==
    /\ sv.step \in {"start", "backed", "opened", "written"}
    /\ sv' = [ sv EXCEPT !.step = "crashed" ]
    /\ UNCHANGED << job, files, now, lastOp, procVars, resVars, stageVars, redone >>

NextSaveSteps ==
    \/ SaveBegin
    \/ SaveRename
    \/ SaveOpen
    \/ SaveDump
    \/ SaveUnlink
    \/ SaveCrash

SpecSaveSteps == Init /\ [][NextSaveSteps]_vars

----------------------------------------------------------------------------
(* SpecBreaker: calls through one CircuitBreaker, one at a time, while time
   passes *)

MaxBreakerCalls == 8
MaxAdvances == 4

BreakerCallsLeft == hist.invoked + hist.refused < MaxBreakerCalls

\* CircuitBreaker.call, lines 78-89: OPEN and too early, NonRetryableError
BreakerCallRefused ==
    /\ probe = NoProbe
    /\ BreakerCallsLeft
    /\ call_refused(cb, now)
    /\ hist' = [ hist EXCEPT !.last = "refused", !.before = cb.state,
                             !.lastAt = now, !.refused = @ + 1 ]
    /\ UNCHANGED << job, files, now, lastOp, procVars, sv, cb, probe, rl,
                    through, rt, wk, stageVars, redone >>

\* CircuitBreaker.call, lines 78-92: func is invoked
BreakerCallBegin ==
    /\ probe = NoProbe
    /\ BreakerCallsLeft
    /\ ~call_refused(cb, now)
    /\ cb' = call_admitted(cb)
    /\ probe' = Some([ at |-> now, before |-> cb.state ])
    /\ hist' = [ hist EXCEPT !.invoked = @ + 1 ]
    /\ UNCHANGED << job, files, now, lastOp, procVars, sv, rl, through, rt,
                    wk, stageVars, redone >>

\* CircuitBreaker.call, lines 92-94: func returned
BreakerCallReturns ==
    /\ probe # NoProbe
    /\ cb' = on_success(cb)
    /\ probe' = NoProbe
    /\ hist' = [ hist EXCEPT !.consec = 0, !.last = "ok", !.before = cb.state,
                             !.lastAt = now, !.successes = @ + 1 ]
    /\ UNCHANGED << job, files, now, lastOp, procVars, sv, rl, through, rt,
                    wk, stageVars, redone >>

\* CircuitBreaker.call, lines 95-97: func raised
BreakerCallRaises ==
    /\ probe # NoProbe
    /\ cb' = on_failure(cb, now)
    /\ probe' = NoProbe
    /\ hist' = [ hist EXCEPT !.consec = @ + 1, !.last = "fail",
                             !.before = cb.state, !.lastAt = now,
                             !.lastFailAt = Some(now), !.fails = @ + 1,
                             !.openedAt = IF cb.state # "OPEN" /\ cb'.state = "OPEN"
                                          THEN Some(now) ELSE @ ]
    /\ UNCHANGED << job, files, now, lastOp, procVars, sv, rl, through, rt,
                    wk, stageVars, redone >>

\* time passes: a moment, or a moment less than the recovery timeout
BreakerAdvance ==
    /\ hist.advances < MaxAdvances
    /\ \E d \in { 1, recovery_timeout - 1 } : now' = now + d
    /\ hist' = [ hist EXCEPT !.advances = @ + 1 ]
    /\ UNCHANGED << job, files, lastOp, procVars, sv, cb, probe, rl, through,
                    rt, wk, stageVars, redone >>

NextBreaker ==
    \/ BreakerCallRefused
    \/ BreakerCallBegin
    \/ BreakerCallReturns
    \/ BreakerCallRaises
    \/ BreakerAdvance

SpecBreaker == Init /\ [][NextBreaker]_vars

----------------------------------------------------------------------------
(* SpecLimiter: one thread calling RateLimiter.wait_if_needed before each
   call of the service, as _generate_subtitle_for_chunk does *)

MaxLimiterCalls == 5

\* wait_if_needed, acquire returned 0: the call is recorded and made
LimiterAdmit ==
    /\ Len(through) < MaxLimiterCalls
    /\ acquire(rl, now).delay = 0
    /\ rl' = acquire(rl, now).calls
    /\ through' = Append(through, now)
    /\ UNCHANGED << job, files, now, lastOp, procVars, sv, cb, probe, hist,
                    rt, wk, stageVars, redone >>

\* wait_if_needed, acquire returned a delay: time.sleep(delay), lines 331-333,
\* and the caller goes on to call the service
LimiterBlock ==
    /\ Len(through) < MaxLimiterCalls
    /\ acquire(rl, now).delay > 0
    /\ rl' = acquire(rl, now).calls
    /\ now' = now + acquire(rl, now).delay
    /\ through' = Append(through, now')
    /\ UNCHANGED << job, files, lastOp, procVars, sv, cb, probe, hist, rt,
                    wk, stageVars, redone >>

\* time passes between two calls: a moment, or a whole window
LimiterAdvance ==
    /\ hist.advances < MaxAdvances
    /\ \E d \in { 1, Window } : now' = now + d
    /\ hist' = [ hist EXCEPT !.advances = @ + 1 ]
    /\ UNCHANGED << job, files, lastOp, procVars, sv, cb, probe, rl, through,
                    rt, wk, stageVars, redone >>

NextLimiter ==
    \/ LimiterAdmit
    \/ LimiterBlock
    \/ LimiterAdvance

SpecLimiter == Init /\ [][NextLimiter]_vars

----------------------------------------------------------------------------
(* SpecWorkers: several threads calling a function decorated with
   with_retry(..., circuit_breaker_key=...) that waits on a rate limiter, as
   _generate_subtitle_for_chunk is.  The objects are module globals; a thread
   switch can come between any two statements. *)

MaxWorkerCalls == 6

At(w, pc0) == wk[w].pc = pc0
Goto(w, pc1) == wk' = [ wk EXCEPT ![w].pc = pc1 ]
WorkerCallsLeft == hist.invoked + hist.refused < MaxWorkerCalls

\* CircuitBreaker.call, lines 78-89: refused
WkCallRefused(w) ==
    /\ At(w, "idle")
    /\ WorkerCallsLeft
    /\ call_refused(cb, now)
    /\ hist' = [ hist EXCEPT !.last = "refused", !.before = cb.state,
                             !.lastAt = now, !.refused = @ + 1 ]
    /\ UNCHANGED << job, files, now, lastOp, procVars, sv, cb, probe, rl,
                    through, rt, wk, stageVars, redone >>

\* CircuitBreaker.call, lines 78-92: func is entered
WkCallBegin(w) ==
    /\ At(w, "idle")
    /\ WorkerCallsLeft
    /\ ~call_refused(cb, now)
    /\ cb' = call_admitted(cb)
    /\ hist' = [ hist EXCEPT !.invoked = @ + 1 ]
    /\ Goto(w, "acquire")
    /\ UNCHANGED << job, files, now, lastOp, procVars, sv, probe, rl,
                    through, rt, stageVars, redone >>

\* RateLimiter.acquire, lines 313-316: now, and the list comprehension built
WkAcquireRead(w) ==
    /\ At(w, "acquire")
    /\ wk' = [ wk EXCEPT ![w].pc = "assign", ![w].t = now,
                         ![w].tmp = recent(rl, now) ]
    /\ UNCHANGED << job, files, now, lastOp, procVars, sv, cb, probe, hist,
                    rl, through, rt, stageVars, redone >>

\* line 316: self.calls = ...
WkAcquireAssign(w) ==
    /\ At(w, "assign")
    /\ rl' = wk[w].tmp
    /\ Goto(w, "check")
    /\ UNCHANGED << job, files, now, lastOp, procVars, sv, cb, probe, hist,
                    through, rt, stageVars, redone >>

\* lines 318-322: the test, and the delay when the limiter is full
WkAcquireCheck(w) ==
    /\ At(w, "check")
    /\ IF limiter_full(rl)
       THEN wk' = [ wk EXCEPT ![w].pc = "sleep",
                              ![w].t = now + Max(0, Window - (wk[w].t - MinOf(rl)) + Buffer) ]
       ELSE Goto(w, "append")
    /\ UNCHANGED << job, files, now, lastOp, procVars, sv, cb, probe, hist,
                    rl, through, rt, stageVars, redone >>

\* line 325: self.calls.append(now); wait_if_needed returns, the call is made
WkAcquireAppend(w) ==
    /\ At(w, "append")
    /\ rl' = Append(rl, wk[w].t)
    /\ through' = Append(through, now)
    /\ Goto(w, "call")
    /\ UNCHANGED << job, files, now, lastOp, procVars, sv, cb, probe, hist,
                    rt, stageVars, redone >>

\* wait_if_needed, line 333: the sleep is over, the call is made
WkWake(w) ==
    /\ At(w, "sleep")
    /\ now >= wk[w].t
    /\ through' = Append(through, now)
    /\ Goto(w, "call")
    /\ UNCHANGED << job, files, now, lastOp, procVars, sv, cb, probe, hist,
                    rl, rt, stageVars, redone >>

\* CircuitBreaker.call, lines 92-94: func returned, _on_success
WkReturns(w) ==
    /\ At(w, "call")
    /\ cb' = on_success(cb)
    /\ hist' = [ hist EXCEPT !.consec = 0, !.last = "ok", !.before = cb.state,
                             !.lastAt = now, !.successes = @ + 1 ]
    /\ Goto(w, "idle")
    /\ UNCHANGED << job, files, now, lastOp, procVars, sv, probe, rl,
                    through, rt, stageVars, redone >>

\* _on_failure, line 112: self.failure_count is read
WkRaisesRead(w) ==
    /\ At(w, "call")
    /\ wk' = [ wk EXCEPT ![w].pc = "inc", ![w].n = cb.failure_count ]
    /\ UNCHANGED << job, files, now, lastOp, procVars, sv, cb, probe, hist,
                    rl, through, rt, stageVars, redone >>

\* _on_failure, lines 112-116: the sum is stored, the time recorded, the
\* threshold tested
WkRaisesWrite(w) ==
    /\ At(w, "inc")
    /\ cb' = on_failure([ cb EXCEPT !.failure_count = wk[w].n ], now)
    /\ hist' = [ hist EXCEPT !.consec = @ + 1, !.last = "fail",
                             !.before = cb.state, !.lastAt = now,
                             !.lastFailAt = Some(now), !.fails = @ + 1,
                             !.openedAt = IF cb.state # "OPEN" /\ cb'.state = "OPEN"
                                          THEN Some(now) ELSE @ ]
    /\ Goto(w, "idle")
    /\ UNCHANGED << job, files, now, lastOp, procVars, sv, probe, rl,
                    through, rt, stageVars, redone >>

\* time passes until the first sleeping thread is due
WkAdvance ==
    /\ hist.advances < MaxAdvances
    /\ \E w \in Workers :
          /\ At(w, "sleep")
          /\ wk[w].t > now
          /\ \A v \in Workers : At(v, "sleep") => wk[v].t >= wk[w].t
          /\ now' = wk[w].t
    /\ hist' = [ hist EXCEPT !.advances = @ + 1 ]
    /\ UNCHANGED << job, files, lastOp, procVars, sv, cb, probe, rl, through,
                    rt, wk, stageVars, redone >>

NextWorkers ==
    \/ \E w \in Workers : WkCallRefused(w)
    \/ \E w \in Workers : WkCallBegin(w)
    \/ \E w \in Workers : WkAcquireRead(w)
    \/ \E w \in Workers : WkAcquireAssign(w)
    \/ \E w \in Workers : WkAcquireCheck(w)
    \/ \E w \in Workers : WkAcquireAppend(w)
    \/ \E w \in Workers : WkWake(w)
    \/ \E w \in Workers : WkReturns(w)
    \/ \E w \in Workers : WkRaisesRead(w)
    \/ \E w \in Workers : WkRaisesWrite(w)
    \/ WkAdvance

SpecWorkers == Init /\ [][NextWorkers]_vars

----------------------------------------------------------------------------
(* SpecRetry: calls of RetryHandler.retry, with and without a circuit
   breaker *)

\* attempts that the calls of one behaviour may make in all
MaxRetryAttempts == 6

\* the profile used together with the breaker of this model: the 'ai' of
\* with_retry('ai', circuit_breaker_key='vertex_ai')
KeyedProfiles == { "ai" }

\* retry is entered, lines 147-156: the profile, the breaker, attempt 1
RetryEnter ==
    /\ rt.status \in {"idle", "returned", "raised"}
    /\ \E p \in Profiles, key \in BOOLEAN :
          /\ key => p \in KeyedProfiles
          /\ rt.used + max_attempts(p) <= MaxRetryAttempts
          /\ rt' = [ status |-> "running", config |-> p, key |-> key,
                     attempt |-> 1, invoked |-> 0, slept |-> 0, delay |-> 0,
                     err |-> None, prevErr |-> None,
                     used |-> rt.used + max_attempts(p) ]
    /\ UNCHANGED << job, files, now, lastOp, procVars, sv, cb, probe, hist,
                    rl, through, wk, stageVars, redone >>

\* the breaker after an attempt in which func returned / raised
AfterSuccess == IF rt.key THEN on_success(call_admitted(cb)) ELSE cb
AfterFailure == IF rt.key THEN on_failure(call_admitted(cb), now) ELSE cb

Refused == rt.key /\ call_refused(cb, now)

\* lines 161-164: func returned, retry returns its result
RetryAttemptReturns ==
    /\ rt.status = "running"
    /\ ~Refused
    /\ cb' = AfterSuccess
    /\ rt' = [ rt EXCEPT !.status = "returned", !.invoked = @ + 1 ]
    /\ UNCHANGED << job, files, now, lastOp, procVars, sv, probe, hist, rl,
                    through, wk, stageVars, redone >>

\* lines 161-162 and 166-172: the breaker refuses, its NonRetryableError is
\* not retryable
RetryAttemptRefused ==
    /\ rt.status = "running"
    /\ Refused
    /\ rt' = [ rt EXCEPT !.status = "raised", !.err = Some(CircuitOpen) ]
    /\ UNCHANGED << job, files, now, lastOp, procVars, sv, cb, probe, hist,
                    rl, through, wk, stageVars, redone >>

\* lines 166-172: func raised an error that is not retryable
RetryRaisesFatal ==
    /\ rt.status = "running"
    /\ ~Refused
    /\ \E e \in FuncErrors :
          /\ ~is_retryable_error(e)
          /\ rt' = [ rt EXCEPT !.status = "raised", !.invoked = @ + 1,
                               !.err = Some(e) ]
    /\ cb' = AfterFailure
    /\ UNCHANGED << job, files, now, lastOp, procVars, sv, probe, hist, rl,
                    through, wk, stageVars, redone >>

\* lines 166-181: func raised a retryable error before the last attempt:
\* time.sleep(delay), then the next attempt
RetryRaisesSleeps ==
    /\ rt.status = "running"
    /\ ~Refused
    /\ rt.attempt < max_attempts(rt.config)
    /\ \E e \in FuncErrors, delay \in calculate_delay(rt.config, rt.attempt) :
          /\ is_retryable_error(e)
          /\ rt' = [ rt EXCEPT !.attempt = @ + 1, !.invoked = @ + 1,
                               !.slept = @ + 1, !.delay = delay,
                               !.err = Some(e), !.prevErr = Some(e) ]
          /\ now' = now + delay
    /\ cb' = AfterFailure
    /\ UNCHANGED << job, files, lastOp, procVars, sv, probe, hist, rl,
                    through, wk, stageVars, redone >>

\* lines 166-178 and 183-185: func raised a retryable error in the last
\* attempt: no sleep, raise last_exception
RetryRaisesLast ==
    /\ rt.status = "running"
    /\ ~Refused
    /\ rt.attempt >= max_attempts(rt.config)
    /\ \E e \in FuncErrors :
          /\ is_retryable_error(e)
          /\ rt' = [ rt EXCEPT !.status = "raised", !.invoked = @ + 1,
                               !.err = Some(e) ]
    /\ cb' = AfterFailure
    /\ UNCHANGED << job, files, now, lastOp, procVars, sv, probe, hist, rl,
                    through, wk, stageVars, redone >>

NextRetry ==
    \/ RetryEnter
    \/ RetryAttemptReturns
    \/ RetryAttemptRefused
    \/ RetryRaisesFatal
    \/ RetryRaisesSleeps
    \/ RetryRaisesLast

SpecRetry == Init /\ [][NextRetry]_vars

\* func returns or raises, and a sleep ends: every step of a call in
\* progress is eventually taken
SpecRetryFair == SpecRetry /\ WF_vars(NextRetry)

----------------------------------------------------------------------------
(* SpecGenerate: AIGenerator.generate_subtitles over the work items of a
   job, each _generate_subtitle_for_chunk call behind with_retry('ai',
   circuit_breaker_key='vertex_ai') and the vertex_ai rate limiter *)

MaxGenChunks == 2
MaxGenItems == 4

\* lines 111-142: the arguments are validated, the loops start
GenEnter ==
    /\ gen.status = "idle"
    /\ \E n \in 0..MaxGenChunks, ls \in GenLanguages, sdh \in BOOLEAN :
          LET g == [ NoGenerate EXCEPT !.chunks = n, !.languages = ls,
                                       !.sdh = sdh, !.i = 1, !.attempt = 1 ]
          IN  /\ total_tasks(g) <= MaxGenItems
              /\ gen' = [ g EXCEPT !.status = IF n = 0 THEN "raised"
                                               ELSE "call" ]
    /\ UNCHANGED << coreVars, now, resVars, mg, ck >>

\* the time at which the model is called: after wait_if_needed, lines 225-226
CallTime == now + acquire(rl, now).delay

Dispatched == [ gen EXCEPT !.dispatched = @ \cup { gen.i } ]

\* the model answers: text that parses (a fragment, stored in the bucket or
\* not), or empty or unparsable text (None), lines 254-266 and 156-182
GenCallReturns ==
    /\ gen.status = "call"
    /\ ~hindi_dual(TaskAt(gen, gen.i))
    /\ ~call_refused(cb, now)
    /\ rl' = acquire(rl, now).calls
    /\ now' = CallTime
    /\ cb' = on_success(call_admitted(cb))
    /\ \E kind \in { "content", "none", "lost" } :
          gen' = IF kind = "lost"
                 THEN record_task(Dispatched, "raised", Some(UploadFailed), {})
                 ELSE record_task(Dispatched, kind, None, {})
    /\ UNCHANGED << coreVars, probe, hist, through, rt, wk, mg, ck >>

\* the breaker is open: CircuitBreaker.call raises NonRetryableError, retry
\* re-raises it, generate_subtitles logs it
GenCallRefused ==
    /\ gen.status = "call"
    /\ call_refused(cb, now)
    /\ gen' = record_task(gen, "raised", Some(CircuitOpen), {})
    /\ UNCHANGED << coreVars, now, resVars, mg, ck >>

\* the model call raises, and the error made of it is not retryable
GenCallRaisesFatal ==
    /\ gen.status = "call"
    /\ ~hindi_dual(TaskAt(gen, gen.i))
    /\ ~call_refused(cb, now)
    /\ rl' = acquire(rl, now).calls
    /\ now' = CallTime
    /\ cb' = on_failure(call_admitted(cb), CallTime)
    /\ \E raw \in GenTexts :
          /\ ~is_retryable_error(classify(raw))
          /\ gen' = record_task(Dispatched, "raised", Some(classify(raw)), raw)
    /\ UNCHANGED << coreVars, probe, hist, through, rt, wk, mg, ck >>

\* the model call raises a retryable error before the last attempt: retry
\* sleeps and calls again
GenCallRaisesSleeps ==
    /\ gen.status = "call"
    /\ ~hindi_dual(TaskAt(gen, gen.i))
    /\ ~call_refused(cb, now)
    /\ gen.attempt < max_attempts("ai")
    /\ rl' = acquire(rl, now).calls
    /\ cb' = on_failure(call_admitted(cb), CallTime)
    /\ \E raw \in GenTexts, delay \in calculate_delay("ai", gen.attempt) :
          /\ is_retryable_error(classify(raw))
          /\ now' = CallTime + delay
    /\ gen' = [ Dispatched EXCEPT !.attempt = @ + 1 ]
    /\ UNCHANGED << coreVars, probe, hist, through, rt, wk, mg, ck >>

\* the model call raises a retryable error in the last attempt: retry raises
\* it, generate_subtitles logs it
GenCallRaisesLast ==
    /\ gen.status = "call"
    /\ ~hindi_dual(TaskAt(gen, gen.i))
    /\ ~call_refused(cb, now)
    /\ gen.attempt >= max_attempts("ai")
    /\ rl' = acquire(rl, now).calls
    /\ now' = CallTime
    /\ cb' = on_failure(call_admitted(cb), CallTime)
    /\ \E raw \in GenTexts :
          /\ is_retryable_error(classify(raw))
          /\ gen' = record_task(Dispatched, "raised", Some(classify(raw)), raw)
    /\ UNCHANGED << coreVars, probe, hist, through, rt, wk, mg, ck >>

\* the Hindi dual method, lines 302-373: generate_content is called for the
\* translate prompt and for the direct prompt, as far as they are configured,
\* each in a try of its own; an exception is printed, nothing is raised, and
\* the text of the direct method is returned when there is one
GenCallHindi ==
    /\ gen.status = "call"
    /\ hindi_dual(TaskAt(gen, gen.i))
    /\ ~call_refused(cb, now)
    /\ cb' = on_success(call_admitted(cb))
    /\ \E calls \in 0..2, kind \in { "content", "none", "lost" } :
          /\ calls = 0 => kind = "none"
          /\ gen' = [ (IF kind = "lost"
                       THEN record_task(Dispatched, "raised",
                                        Some(UploadFailed), {})
                       ELSE record_task(Dispatched, kind, None, {}))
                      EXCEPT !.bypassed = @ + calls ]
    /\ UNCHANGED << coreVars, now, rl, probe, hist, through, rt, wk, mg, ck >>

NextGenerate ==
    \/ GenEnter
    \/ GenCallReturns
    \/ GenCallHindi
    \/ GenCallRefused
    \/ GenCallRaisesFatal
    \/ GenCallRaisesSleeps
    \/ GenCallRaisesLast

SpecGenerate == Init /\ [][NextGenerate]_vars

----------------------------------------------------------------------------
(* SpecMerge: fragments are generated, stored and downloaded in any order,
   then SubtitleMerger.merge_subtitles merges them *)

MaxMergeChunks == 3
MaxFragments == 2

MergeLanguages == { "eng", "ben" }

\* what the model answers for a chunk: one cue, two cues, a cue that runs
\* past the end of the chunk (written 00:00:61,500), a cue without duration
CueLists ==
    { << Cue(seconds_to_timestamp(1000), seconds_to_timestamp(4000), "a") >>,
      << Cue(seconds_to_timestamp(1000), seconds_to_timestamp(4000), "a"),
         Cue(seconds_to_timestamp(5000), seconds_to_timestamp(8000), "b") >>,
      << Cue(seconds_to_timestamp(500), Timestamp(0, 0, 61, 500), "a") >>,
      << Cue(seconds_to_timestamp(4000), seconds_to_timestamp(4000), "a") >> }

\* a work item completes: the response is parsed (ai_generator.py 254-258),
\* stored, and downloaded with its text (gcs_handler.py 209-217)
MergeFragment ==
    /\ mg.status = "idle"
    /\ Len(mg.subtitles) < MaxFragments
    /\ \E c \in 0..(MaxMergeChunks - 1), l \in MergeLanguages,
          cues \in CueLists :
          LET content == parse_srt_response(ResponseText(cues, 1))
          IN  /\ \A i \in DOMAIN mg.subtitles :
                    ~ ( /\ mg.subtitles[i].chunk = ChunkName(c)
                        /\ mg.subtitles[i].language = l )
              /\ content # None
              /\ mg' = [ mg EXCEPT
                    !.subtitles = Append(@, [ chunk |-> ChunkName(c),
                                              language |-> l, sdh |-> FALSE,
                                              content |-> content[1] ]),
                    !.cues = Append(@, cues) ]
    /\ UNCHANGED << coreVars, now, resVars, gen, ck >>

\* subtitle_processor.merge_subtitles, lines 441-460, and
\* SubtitleMerger.merge_subtitles
MergeRun ==
    /\ mg.status = "idle"
    /\ LET out == merger_merge_subtitles(mg.subtitles)
       IN  mg' = [ mg EXCEPT !.out = out,
                             !.status = IF DOMAIN out = {} THEN "raised"
                                        ELSE "merged" ]
    /\ UNCHANGED << coreVars, now, resVars, gen, ck >>

NextMerge ==
    \/ MergeFragment
    \/ MergeRun

SpecMerge == Init /\ [][NextMerge]_vars

----------------------------------------------------------------------------
(* SpecChunk: VideoChunker.split_video on videos of whole and fractional
   durations *)

MaxHalfSeconds == 24
MaxChunkLen == 3

\* probed durations, in milliseconds: every half second up to a bound, and a
\* three-hour video
Durations == { 500 * k : k \in 0..MaxHalfSeconds } \cup { 10800 * 1000 }

\* processing.chunk_duration, in seconds
ChunkLens == 1..MaxChunkLen \cup { chunk_duration }

\* split_video, lines 60-68: the video is analysed
ChunkAnalyze ==
    /\ ck.status = "idle"
    /\ \E d \in Durations, len \in ChunkLens :
          ck' = [ NoChunking EXCEPT !.status = "split", !.duration = d,
                                    !.len = len,
                                    !.total_chunks = total_chunks(d, len) ]
    /\ UNCHANGED << coreVars, now, resVars, gen, mg >>

\* lines 70-110: ffmpeg writes chunk i
ChunkSplitOne ==
    /\ ck.status = "split"
    /\ Len(ck.chunks) < ck.total_chunks
    /\ LET i == Len(ck.chunks)
       IN  ck' = [ ck EXCEPT !.chunks = Append(@,
                      [ index |-> i, name |-> ChunkName(i),
                        start |-> chunk_start(i, ck.len),
                        duration |-> chunk_length(i, ck.total_chunks,
                                                  ck.duration, ck.len) ]) ]
    /\ UNCHANGED << coreVars, now, resVars, gen, mg >>

\* lines 105-110: ffmpeg fails or leaves no file
ChunkSplitFails ==
    /\ ck.status = "split"
    /\ Len(ck.chunks) < ck.total_chunks
    /\ ck' = [ ck EXCEPT !.status = "raised" ]
    /\ UNCHANGED << coreVars, now, resVars, gen, mg >>

\* line 117: the list of chunks is returned
ChunkReturn ==
    /\ ck.status = "split"
    /\ Len(ck.chunks) = ck.total_chunks
    /\ ck' = [ ck EXCEPT !.status = "done" ]
    /\ UNCHANGED << coreVars, now, resVars, gen, mg >>

NextChunk ==
    \/ ChunkAnalyze
    \/ ChunkSplitOne
    \/ ChunkSplitFails
    \/ ChunkReturn

SpecChunk == Init /\ [][NextChunk]_vars

----------------------------------------------------------------------------
(* SpecJobs: several jobs are created, loaded and deleted in one jobs/
   directory while the clock goes on.  SpecBuckets: each job created connects
   to its bucket, uploads chunks, stores fragments and cleans the bucket up *)

MaxJobs == 2
MaxJobChunks == 1

JobNumbers == 1..Len(jb.ids)
JobChunks == 0..(MaxJobChunks - 1)

\* what the actions of SpecJobs leave alone, but for the clock
jobsFrame ==
    << job, procVars, lastOp, sv, resVars, raisedIn, redone, gen, mg, ck, tm >>

\* create_job for one more video, at the current second
JobsCreate ==
    /\ Len(jb.ids) < MaxJobs
    /\ \E u \in Suffixes :
          LET id == new_job_id(now, u)
              video == << "video", Len(jb.ids) + 1 >>
          IN  /\ files' = create_job(files, video, now, u).files
              /\ jb' = [ jb EXCEPT
                           !.ids = Append(@, id),
                           !.bucket = Append(@, None),
                           !.uploaded = Append(@, << >>),
                           !.clobbered = IF JobFile(id) \in DOMAIN files
                                         THEN @ \cup {id} ELSE @ ]
    /\ UNCHANGED << now, jobsFrame >>

\* the ids handed to load_job: those of the jobs created and their parts, as
\* typed after --resume
JobsLoadArgs ==
    { SubSeq(jb.ids[n], a, b) : n \in JobNumbers, a \in 1..3, b \in 1..3 }
    \ { << >> }

\* load_job(arg)
JobsLoad ==
    /\ \E arg \in JobsLoadArgs :
          \E r \in load_job(files, arg) :
              jb' = [ jb EXCEPT !.loaded = Some([ id |-> arg, result |-> r ]) ]
    /\ UNCHANGED << files, now, jobsFrame >>

\* delete_job of a job that was created
JobsDelete ==
    /\ \E n \in JobNumbers :
          /\ JobFile(jb.ids[n]) \in DOMAIN files
          /\ files' = delete_job(files, jb.ids[n])
    /\ UNCHANGED << jb, now, jobsFrame >>

\* connect_gcs of job n: create_job_bucket under either bucket mode.  When
\* the bucket of a new name is there already, create_bucket raises and the
\* bucket is used if the message says "already exists" (lines 129-132)
JobsConnect(n) ==
    /\ jb.bucket[n] = None
    /\ \E mode \in BucketModes :
          jb' = [ jb EXCEPT !.bucket[n] = Some(create_job_bucket(mode, now)) ]
    /\ UNCHANGED << files, now, jobsFrame >>

\* a blob of job n's bucket is written by job n
WriteBlob(n, name) ==
    LET k == << jb.bucket[n][1], name >>
    IN  [ jb EXCEPT
            !.store = [ x \in DOMAIN @ \cup {k} |-> IF x = k THEN n ELSE @[x] ],
            !.overwritten = IF k \in DOMAIN jb.store /\ jb.store[k] # n
                            THEN @ \cup { << n, jb.store[k] >> } ELSE @ ]

\* upload_chunks of job n, one chunk: blob_name = f"chunks/{chunk_file.name}"
JobsUpload(n) ==
    /\ jb.bucket[n] # None
    /\ Len(jb.uploaded[n]) < MaxJobChunks
    /\ LET c == Len(jb.uploaded[n])
       IN  jb' = [ WriteBlob(n, ChunkBlob(c)) EXCEPT
                     !.uploaded[n] = Append(@, c) ]
    /\ UNCHANGED << files, now, jobsFrame >>

\* generate_subtitles of job n, one fragment stored:
\* blob_name = f"subtitles/{chunk_name}_{language}.srt"
JobsStore(n) ==
    /\ jb.bucket[n] # None
    /\ \E c \in Items(jb.uploaded[n]) :
          /\ LET k == << jb.bucket[n][1], SubtitleBlob(c, "eng") >>
             IN  IF k \in DOMAIN jb.store THEN jb.store[k] # n ELSE TRUE
          /\ jb' = WriteBlob(n, SubtitleBlob(c, "eng"))
    /\ UNCHANGED << files, now, jobsFrame >>

\* finalize_output of job n: cleanup_job_data on its bucket with its
\* uploaded_chunks
JobsCleanup(n) ==
    /\ jb.bucket[n] # None
    /\ jb.uploaded[n] # << >>
    /\ LET b == jb.bucket[n][1]
           kept == cleanup_job_data(BlobsOf(jb.store, b), jb.uploaded[n])
           gone == { k \in DOMAIN jb.store : k[1] = b /\ k[2] \notin kept }
       IN  /\ gone # {}
           /\ jb' = [ jb EXCEPT
                        !.store = [ x \in DOMAIN @ \ gone |-> @[x] ],
                        !.removed = @ \cup { << n, jb.store[k] >> :
                                               k \in { x \in gone : jb.store[x] # n } } ]
    /\ UNCHANGED << files, now, jobsFrame >>

\* the state store with several jobs
NextJobs ==
    \/ JobsCreate
    \/ JobsLoad
    \/ JobsDelete
    \/ Tick

SpecJobs == Init /\ [][NextJobs]_vars

\* the object store with several jobs
NextBuckets ==
    \/ JobsCreate
    \/ \E n \in JobNumbers : JobsConnect(n)
    \/ \E n \in JobNumbers : JobsUpload(n)
    \/ \E n \in JobNumbers : JobsStore(n)
    \/ \E n \in JobNumbers : JobsCleanup(n)
    \/ Tick

SpecBuckets == Init /\ [][NextBuckets]_vars

----------------------------------------------------------------------------
(* SpecCleanup: one thread using a TempFileManager: temp_file contexts are
   entered and left, job directories are created and cleaned, and
   cleanup_all is called (it is registered with atexit) *)

MaxPaths == 2

TempFiles == { << "file", i >> : i \in 1..MaxPaths }
TempDirs == { << "dir", i >> : i \in 1..MaxPaths }

\* what the actions of SpecCleanup leave alone
cleanupFrame ==
    << job, files, now, procVars, lastOp, sv, resVars, raisedIn, redone, gen,
       mg, ck, jb >>

\* temp_file, lines 56-69: mkstemp, the path tracked under the lock, yield
TmTempFileEnter ==
    /\ tm.pc = "idle" /\ ~tm.lock
    /\ \E f \in TempFiles \ (tm.disk \cup tm.tracked_files) :
          tm' = [ tm EXCEPT !.disk = @ \cup {f}, !.open = @ \cup {f},
                            !.tracked_files = @ \cup {f} ]
    /\ UNCHANGED cleanupFrame

\* temp_file, lines 71-72: the context is left, _safe_remove_file is called
TmTempFileExit ==
    /\ tm.pc = "idle"
    /\ \E f \in tm.open :
          tm' = [ tm EXCEPT !.open = @ \ {f}, !.pc = "remove", !.path = Some(f),
                            !.caller = "temp_file" ]
    /\ UNCHANGED cleanupFrame

\* create_job_directory, lines 93-102
TmCreateJobDirectory ==
    /\ tm.pc = "idle" /\ ~tm.lock
    /\ \E d \in TempDirs \ tm.tracked_dirs :
          tm' = [ tm EXCEPT !.disk = @ \cup {d}, !.tracked_dirs = @ \cup {d} ]
    /\ UNCHANGED cleanupFrame

\* cleanup_job, lines 104-107: _safe_remove_directory is called
TmCleanupJob ==
    /\ tm.pc = "idle"
    /\ \E d \in tm.tracked_dirs :
          tm' = [ tm EXCEPT !.pc = "remove", !.path = Some(d),
                            !.caller = "cleanup_job" ]
    /\ UNCHANGED cleanupFrame

\* _safe_remove_*, lines 164-166 and 177-179: the path is removed when it is
\* there, and the lock comes next
TmRemoved ==
    /\ tm.pc = "remove"
    /\ tm' = [ tm EXCEPT !.disk = @ \ {tm.path[1]}, !.pc = "discard" ]
    /\ UNCHANGED cleanupFrame

\* _safe_remove_*: unlink or rmtree raises, lines 171-172 and 184-185 log it
\* and the path stays tracked
TmRemoveRaises ==
    /\ tm.pc = "remove"
    /\ tm.path[1] \in tm.disk
    /\ tm' = after_remove(tm)
    /\ UNCHANGED cleanupFrame

\* _safe_remove_*, lines 168-169 and 181-182: with self._lock, which blocks
\* while the lock is held, the path is discarded from its tracked set
TmDiscard ==
    /\ tm.pc = "discard"
    /\ ~tm.lock
    /\ tm' = after_remove(discard(tm, tm.path[1]))
    /\ UNCHANGED cleanupFrame

\* cleanup_all, line 131: with self._lock
TmCleanupAll ==
    /\ tm.pc = "idle" /\ ~tm.lock
    /\ tm' = [ tm EXCEPT !.lock = TRUE, !.pc = "loop", !.caller = "cleanup_all",
                         !.todo = tm.tracked_files \cup tm.tracked_dirs ]
    /\ UNCHANGED cleanupFrame

\* cleanup_all, lines 133-138: the next tracked file, and after the files
\* the next tracked directory, is handed to _safe_remove_*
TmCleanupNext ==
    /\ tm.pc = "loop"
    /\ \E p \in tm.todo :
          /\ ~IsFile(p) => \A q \in tm.todo : ~IsFile(q)
          /\ tm' = [ tm EXCEPT !.todo = @ \ {p}, !.pc = "remove",
                               !.path = Some(p) ]
    /\ UNCHANGED cleanupFrame

\* cleanup_all: both loops are over, the lock is released
TmCleanupReturns ==
    /\ tm.pc = "loop"
    /\ tm.todo = {}
    /\ tm' = [ tm EXCEPT !.lock = FALSE, !.pc = "idle", !.caller = "none" ]
    /\ UNCHANGED cleanupFrame

NextCleanup ==
    \/ TmTempFileEnter
    \/ TmTempFileExit
    \/ TmCreateJobDirectory
    \/ TmCleanupJob
    \/ TmRemoved
    \/ TmRemoveRaises
    \/ TmDiscard
    \/ TmCleanupAll
    \/ TmCleanupNext
    \/ TmCleanupReturns

SpecCleanup == Init /\ [][NextCleanup]_vars

\* the thread is scheduled as long as it can take a step
SpecCleanupFair == SpecCleanup /\ WF_vars(NextCleanup)

----------------------------------------------------------------------------
(* SpecProbes: several calls in flight through one CircuitBreaker, as the
   coroutines of with_async_retry or the threads of a worker pool are, while
   time passes.  A switch comes where func is entered and where it ends. *)

MaxProbeCalls == 7

ProbeCallsLeft == hist.invoked + hist.refused < MaxProbeCalls

\* lines 78-89 and 259-266: the breaker is OPEN and not due, the call is
\* refused
PrCallRefused(w) ==
    /\ At(w, "idle")
    /\ ProbeCallsLeft
    /\ call_refused(cb, now)
    /\ hist' = [ hist EXCEPT !.last = "refused", !.before = cb.state,
                             !.lastAt = now, !.refused = @ + 1 ]
    /\ UNCHANGED << job, files, now, lastOp, procVars, sv, cb, probe, rl,
                    through, rt, wk, stageVars, redone >>

\* lines 78-92 and 259-269: func is entered, the breaker turned HALF_OPEN
\* when it was OPEN and due
PrCallBegin(w) ==
    /\ At(w, "idle")
    /\ ProbeCallsLeft
    /\ ~call_refused(cb, now)
    /\ cb' = call_admitted(cb)
    /\ hist' = [ hist EXCEPT !.invoked = @ + 1 ]
    /\ wk' = [ wk EXCEPT ![w].pc = "call", ![w].t = now,
                         ![w].tmp = << cb.state >> ]
    /\ UNCHANGED << job, files, now, lastOp, procVars, sv, probe, rl,
                    through, rt, stageVars, redone >>

\* lines 92-94 and 269-271: func returned, _on_success
PrReturns(w) ==
    /\ At(w, "call")
    /\ cb' = on_success(cb)
    /\ hist' = [ hist EXCEPT !.consec = 0, !.last = "ok", !.before = cb.state,
                             !.lastAt = now, !.successes = @ + 1 ]
    /\ wk' = [ wk EXCEPT ![w] = Idle ]
    /\ UNCHANGED << job, files, now, lastOp, procVars, sv, probe, rl,
                    through, rt, stageVars, redone >>

\* lines 95-97 and 272-274: func raised, _on_failure
PrRaises(w) ==
    /\ At(w, "call")
    /\ cb' = on_failure(cb, now)
    /\ hist' = [ hist EXCEPT !.consec = @ + 1, !.last = "fail",
                             !.before = cb.state, !.lastAt = now,
                             !.lastFailAt = Some(now), !.fails = @ + 1,
                             !.openedAt = IF cb.state # "OPEN" /\ cb'.state = "OPEN"
                                          THEN Some(now) ELSE @ ]
    /\ wk' = [ wk EXCEPT ![w] = Idle ]
    /\ UNCHANGED << job, files, now, lastOp, procVars, sv, probe, rl,
                    through, rt, stageVars, redone >>

NextProbes ==
    \/ \E w \in Workers : PrCallRefused(w)
    \/ \E w \in Workers : PrCallBegin(w)
    \/ \E w \in Workers : PrReturns(w)
    \/ \E w \in Workers : PrRaises(w)
    \/ BreakerAdvance

SpecProbes == Init /\ [][NextProbes]_vars

----------------------------------------------------------------------------
(* Claims about the orchestrator, checked under Spec *)

\* metadata keys a handler reads with metadata[...] or needs non-empty
Requires(stage) ==
    CASE stage = "UPLOADING" -> {"chunks", "bucket_name"}
      [] stage = "GENERATING" -> {"uploaded_chunks", "bucket_name"}
      [] stage = "DOWNLOADING" -> {"generated_subtitles", "bucket_name"}
      [] stage = "MERGING" -> {"local_subtitles"}
      [] OTHER -> {}

\* metadata keys a handler writes before it returns
Produces(stage) ==
    CASE stage = "ANALYZING" -> {"video_info", "total_chunks"}
      [] stage = "CHUNKING" -> {"chunks", "chunks_created"}
      [] stage = "CONNECTING" -> {"bucket_name"}
      [] stage = "UPLOADING" -> {"uploaded_chunks", "chunks_uploaded"}
      [] stage = "GENERATING" -> {"generated_subtitles", "subtitles_generated"}
      [] stage = "DOWNLOADING" -> {"local_subtitles", "subtitles_downloaded"}
      [] stage = "MERGING" -> {"merged_files"}
      [] stage = "FINALIZING" -> {"output_files"}
      [] OTHER -> {}

PersistedStage == Persisted.current_stage

\* C1: in a run, every stage that is skipped is one whose handler had
\* completed before, and no stage whose handler had completed before the run
\* is executed again: the run re-enters at the first stage after the highest
\* completed one.
C1_ResumeAfterHighestCompleted ==
    /\ skipped \subseteq completed
    /\ ran \cap doneAtStart = {}

\* C2: a persisted record with stage = k (k one of the ten pipeline stages)
\* exists only once handler k has returned: the stage is advanced and saved
\* after the handler, never before or while it runs.
C2_StageSavedAfterHandler ==
    (OnDisk /\ PersistedStage \in Items(stages)) => PersistedStage \in completed

\* C3: a job that was interrupted by a crash and resumed, with no failure of
\* the environment, ends like an uninterrupted run: COMPLETED, with the
\* merged tracks of every chunk.
C3_ResumeEqualsUninterrupted ==
    (pc = "done" /\ crashes > 0 /\ faults = 0)
        => /\ OnDisk /\ PersistedStage = "COMPLETED"
           /\ output = FullOutput

\* C4: from one persisted record of the job to the next, the stage value
\* does not decrease, except by the transition into FAILED.
C4_StageNonDecreasing ==
    [][ (OnDisk /\ OnDisk')
          => \/ ProcessingStage[PersistedStage'] >= ProcessingStage[PersistedStage]
             \/ PersistedStage' = "FAILED" ]_vars

\* C4 witness: a run has persisted FAILED and then a later pipeline stage
C4_Witness ==
    /\ failedInRun
    /\ OnDisk
    /\ ProcessingStage[PersistedStage] > 1
    /\ PersistedStage # "COMPLETED"

\* C5: while the handler of a stage runs, the handler of every earlier stage
\* of the declared order has completed.
C5_EarlierStagesCompleted ==
    pc = "handler" => \A i \in 1..(idx - 1) : stages[i] \in completed

\* C6: once a run has persisted FAILED, no stage handler runs in that run
\* and the run does not persist COMPLETED.
C6_FailedIsSink ==
    failedInRun =>
        /\ pc # "handler"
        /\ OnDisk => PersistedStage # "COMPLETED"

\* C7: a persisted FAILED record carries the error, and a run resumed from a
\* FAILED record does not execute again a stage whose handler had completed
\* before the failure.
C7_FailedJobReplaysFromLastCompleted ==
    /\ (OnDisk /\ PersistedStage = "FAILED") => Persisted.error # None
    /\ loadedStage = "FAILED" => ran \cap doneAtStart = {}

\* C8: the keys produced by every stage the loop has passed are in the job's
\* metadata, and a handler that runs finds the keys it reads.
C8_MetadataPresent ==
    /\ pc \in {"loop", "handler"} =>
          \A i \in 1..(idx - 1) : Produces(stages[i]) \subseteq DOMAIN job.metadata
    /\ pc = "handler" => Requires(CurStage) \subseteq DOMAIN job.metadata

----------------------------------------------------------------------------
(* Claims about the job-state store, checked under SpecStore *)

\* C9: after save_job(J) has returned without raising, load_job(J.job_id)
\* returns a job equal to J (as save_job left it) in every field.
C9_LoadAfterSave ==
    (lastOp.op = "save" /\ ~lastOp.raised)
        => load_job(files, lastOp.id) = { lastOp.saved }

\* C9 witness: a FAILED job with metadata and an error was saved over an
\* earlier record of the job
C9_Witness ==
    /\ lastOp.op = "save" /\ ~lastOp.raised
    /\ lastOp.saved[1].current_stage = "FAILED"
    /\ lastOp.saved[1].metadata # EmptyMap
    /\ lastOp.saved[1].updated_at > lastOp.saved[1].created_at

\* C10: when save_job raises, load_job returns what it returned before the
\* save: the previously saved state.
C10_FailedSaveKeepsPrevious ==
    (lastOp.op = "save" /\ lastOp.raised)
        => load_job(files, lastOp.id) = lastOp.prev

\* C11: while an already-saved job is being saved, and after a crash between
\* two steps of that save, load_job finds a complete record of the job, the
\* previous one or the new one, and list_jobs lists the job.
C11_ReaderFindsCompleteRecord ==
    (sv.step # "idle" /\ sv.prev # {} /\ None \notin sv.prev)
        => /\ load_job(files, sv.job.job_id) \subseteq sv.prev \cup { Some(sv.job) }
           /\ list_jobs(files) # {}

\* C12: load_job returns None (job not found) only when no file of the job
\* is there, so a file that cannot be parsed is told apart from a missing
\* one; and list_jobs accounts for every record file of the directory.
C12_CorruptDistinctFromMissing ==
    /\ (lastOp.op = "load" /\ lastOp.result = None)
          => load_candidates(files, lastOp.id) = {}
    /\ Cardinality(list_jobs(files))
          = Cardinality({ f \in DOMAIN files : f[2] = "json" })

----------------------------------------------------------------------------
(* Claims about the circuit breaker, checked under SpecBreaker *)

\* C13: after 5 consecutive failures the breaker is OPEN, and while it is
\* OPEN no call is in flight: the call is refused without func being invoked;
\* only 5 consecutive failures open it, a success in between resets the
\* count, so that a CLOSED breaker counts exactly the failures since the last
\* success.
C13_OpensAfterNFailures ==
    /\ (probe = NoProbe /\ hist.consec >= 5) => cb.state = "OPEN"
    /\ cb.state = "OPEN" => (probe = NoProbe /\ hist.consec >= 5)
    /\ cb.state = "CLOSED" => (cb.failure_count = hist.consec /\ hist.consec < 5)
    /\ hist.last = "refused" => (hist.before = "OPEN" /\ hist.consec >= 5)

\* C13 witness: the breaker refused a call after failures that followed a
\* success
C13_Witness ==
    /\ hist.last = "refused"
    /\ hist.successes > 0
    /\ cb.state = "OPEN"

\* C14: a call is refused only while less than 60 s have passed since the
\* breaker opened, and a call that finds the breaker OPEN is let through only
\* when 60 s or more have passed since it opened, the breaker then being
\* HALF_OPEN.
C14_OpenFailsFastUntilTimeout ==
    /\ hist.last = "refused" =>
          (hist.openedAt # None /\ hist.lastAt - hist.openedAt[1] < 60 * Second)
    /\ (probe # NoProbe /\ probe[1].before = "OPEN") =>
          /\ hist.openedAt # None
          /\ probe[1].at - hist.openedAt[1] >= 60 * Second
          /\ cb.state = "HALF_OPEN"

\* C14 witness: after a refused call, a later call found the breaker OPEN
\* and was let through
C14_Witness ==
    /\ hist.refused > 0
    /\ probe # NoProbe
    /\ probe[1].before = "OPEN"

\* C15: a probe that succeeds in HALF_OPEN leaves the breaker CLOSED with a
\* failure count of zero; a probe that fails leaves it OPEN, opened at the
\* time of that failure, and the next call let through comes 60 s or more
\* after that failure.
C15_HalfOpenProbe ==
    /\ (probe = NoProbe /\ hist.last = "ok" /\ hist.before = "HALF_OPEN") =>
          (cb.state = "CLOSED" /\ cb.failure_count = 0)
    /\ (probe = NoProbe /\ hist.last = "fail" /\ hist.before = "HALF_OPEN") =>
          /\ cb.state = "OPEN"
          /\ hist.openedAt = Some(hist.lastAt)
          /\ cb.last_failure_time = Some(hist.lastAt)
    /\ (probe # NoProbe /\ probe[1].before = "OPEN") =>
          /\ hist.lastFailAt # None
          /\ probe[1].at - hist.lastFailAt[1] >= 60 * Second

\* C15 witness: a probe failed in HALF_OPEN, and a later call was let
\* through as the next probe
C15_Witness ==
    /\ hist.fails > 5
    /\ probe # NoProbe
    /\ probe[1].before = "OPEN"

----------------------------------------------------------------------------
(* Claims about the rate limiter, checked under SpecLimiter and SpecWorkers *)

\* the calls let through in the 60 s that start with call i
InWindow(i) ==
    { k \in DOMAIN through :
        through[k] >= through[i] /\ through[k] < through[i] + 60 * Second }

\* C16: no more than calls_per_minute calls of the service are let through
\* within any 60-second window.
C16_AtMostQPerWindow ==
    \A i \in DOMAIN through : Cardinality(InWindow(i)) <= calls_per_minute

\* C17: under every interleaving of the workers, the limiter never holds
\* more than calls_per_minute calls of the current window (each admission
\* tests and records in one step), and no failure is lost from the breaker's
\* count: as long as no call has succeeded, failure_count is the number of
\* failures reported.
C17_UpdatesAtomic ==
    /\ Len(recent(rl, now)) <= calls_per_minute
    /\ hist.successes = 0 => cb.failure_count = hist.fails

----------------------------------------------------------------------------
(* Claims about the retry facade, checked under SpecRetry and SpecRetryFair *)

\* an error of the classes the claim calls non-retryable: auth, validation,
\* malformed configuration, tagged non-retryable, and blocked by the safety
\* filters
NonRetryableKind(e) ==
    \/ e.cls \in { "AuthenticationError", "ValidationError",
                   "ConfigurationError", "NonRetryableError" }
    \/ (e.cls = "SubtitleGenerationError" /\ "blocked" \in e.words)

\* C18: an error after which retry made another attempt is never of a
\* non-retryable class, and an error tagged retryable is raised to the
\* caller only after the last attempt, whatever its message says.
C18_NonRetryableNeverRetried ==
    /\ rt.prevErr # None => ~NonRetryableKind(rt.prevErr[1])
    /\ (rt.status = "raised" /\ rt.err[1].cls \in RETRYABLE_ERRORS)
          => rt.attempt = max_attempts(rt.config)

\* the attempt counts the claim gives for the named profiles
ClaimedAttempts(p) ==
    CASE p = "default" -> 3
      [] p = "network" -> 5
      [] p = "storage" -> 4
      [] p = "ai" -> 3
      [] p = "quota" -> 2

C19_Bounds ==
    rt.status # "idle" =>
        /\ rt.attempt <= ClaimedAttempts(rt.config)
        /\ rt.invoked <= rt.attempt
        /\ rt.slept = rt.attempt - 1
        /\ rt.delay <= 300 * Second
        /\ rt.status = "raised" => rt.err # None

\* C19: a call of retry makes at most the profile's number of attempts, has
\* slept once, for at most 300 s, before each attempt but the first and not
\* after the last, raises the last error when it fails, and comes to an end.
C19_RetryTerminates ==
    /\ []C19_Bounds
    /\ (rt.status = "running") ~> (rt.status \in {"returned", "raised"})

\* C19 witness: a network call failed in each of its 5 attempts, with 4
\* sleeps, and raised
C19_Witness ==
    /\ rt.status = "raised"
    /\ rt.config = "network"
    /\ rt.attempt = 5
    /\ rt.invoked = 5
    /\ rt.slept = 4
    /\ is_retryable_error(rt.err[1])

----------------------------------------------------------------------------
(* Claim about the Generating stage, checked under Spec *)

\* C20: the job goes on to Downloading after a completed Generating stage
\* only if at least 0.3 of the work items (one per uploaded chunk and
\* language) produced a fragment.
C20_GeneratingThreshold ==
    ( /\ "DOWNLOADING" \in ran
      /\ "GENERATING" \in completed
      /\ Has(job, "generated_subtitles")
      /\ Has(job, "uploaded_chunks") )
        => 10 * Len(job.metadata["generated_subtitles"])
             >= 3 * Len(job.metadata["uploaded_chunks"]) * Len(job.languages)

----------------------------------------------------------------------------
(* Claims about AIGenerator.generate_subtitles, checked under SpecGenerate *)

\* the work items that ended without a fragment
FailedItems ==
    { k \in DOMAIN gen.results : gen.results[k].kind # "content" }

\* the fragments of the items that ended with one, in the order of the loops
RECURSIVE Fragments(_, _)
Fragments(g, k) ==
    IF k = 0 THEN << >>
    ELSE IF g.results[k].kind = "content"
         THEN Append(Fragments(g, k - 1), TaskAt(g, k))
         ELSE Fragments(g, k - 1)

C22_QuotaYieldsNone ==
    \A k \in DOMAIN gen.results :
        "quota" \in gen.results[k].raw => gen.results[k].kind = "none"

----------------------------------------------------------------------------
(* Claims about the merger, checked under SpecMerge *)

\* the time of a timestamp of a track, in milliseconds
Ms(ts) == timestamp_to_seconds(ts)

\* C23: in every merged track written, each entry ends after it starts, no
\* entry ends after the next one starts, and the entries are numbered 1, 2,
\* 3, ... without a gap.
C23_TrackInvariants ==
    \A key \in DOMAIN mg.out :
        LET T == mg.out[key]
        IN  \A i \in DOMAIN T :
                /\ Ms(T[i].end) > Ms(T[i].start)
                /\ i < Len(T) => Ms(T[i].end) <= Ms(T[i + 1].start)
                /\ T[i].seq = i

\* the start of cue j of fragment i in the time of the whole video
CueStart(i, j) ==
    Ms(mg.cues[i][j].start)
      + chunk_duration * 1000 * extract_chunk_number(mg.subtitles[i].chunk)

CueEnd(i, j) ==
    Ms(mg.cues[i][j].end)
      + chunk_duration * 1000 * extract_chunk_number(mg.subtitles[i].chunk)

\* the fragments hold a cue without duration, or the last cue of a chunk
\* overlaps the first cue of the next chunk of the same track by 10 ms or more
Unrecoverable ==
    \/ \E i \in DOMAIN mg.cues : \E j \in DOMAIN mg.cues[i] :
          CueEnd(i, j) <= CueStart(i, j)
    \/ \E i, k \in DOMAIN mg.cues :
          /\ GroupKey(mg.subtitles[i]) = GroupKey(mg.subtitles[k])
          /\ extract_chunk_number(mg.subtitles[k].chunk)
               = extract_chunk_number(mg.subtitles[i].chunk) + 1
          /\ CueEnd(i, Len(mg.cues[i])) - CueStart(k, 1) >= 10

\* C24: when the fragments hold a cue of zero or negative duration, or an
\* overlap of 10 ms or more between consecutive chunks, the merge fails and
\* writes no track.
C24_MergerVerifies ==
    (mg.status # "idle" /\ Unrecoverable)
        => (mg.status = "raised" /\ DOMAIN mg.out = {})

\* C25: every cue of the fragment of chunk i is in the merged track of its
\* language, shifted by i times the chunk length, whichever other fragments
\* are present.
C25_OffsetsByChunkIndex ==
    mg.status = "merged" =>
        \A i \in DOMAIN mg.cues : \A j \in DOMAIN mg.cues[i] :
            /\ GroupKey(mg.subtitles[i]) \in DOMAIN mg.out
            /\ \E n \in DOMAIN mg.out[GroupKey(mg.subtitles[i])] :
                  LET e == mg.out[GroupKey(mg.subtitles[i])][n]
                  IN  /\ Ms(e.start) = CueStart(i, j)
                      /\ Ms(e.end) = CueEnd(i, j)
                      /\ e.text = << TextLine(mg.cues[i][j].text) >>

\* the orders in which a list of fragments can reach the merger
Orders(subtitles) ==
    { [ i \in 1..Len(subtitles) |-> subtitles[p[i]] ] :
          p \in Permutations(1..Len(subtitles)) }

\* C26: the tracks written are the same for every order of the fragment
\* list handed to the merger.
C26_OrderIndependent ==
    mg.status # "idle" =>
        \A q \in Orders(mg.subtitles) : merger_merge_subtitles(q) = mg.out

\* C26 witness: two fragments of one track reached the merger with the later
\* chunk first, and the track written holds the earlier chunk's entry first
C26_Witness ==
    /\ mg.status = "merged"
    /\ \E i, k \in DOMAIN mg.subtitles :
          /\ i < k
          /\ GroupKey(mg.subtitles[i]) = GroupKey(mg.subtitles[k])
          /\ extract_chunk_number(mg.subtitles[i].chunk)
               > extract_chunk_number(mg.subtitles[k].chunk)
          /\ LET T == mg.out[GroupKey(mg.subtitles[i])]
             IN  /\ Len(T) >= 2
                 /\ Ms(T[1].start) = CueStart(k, 1)
                 /\ Ms(T[2].start) = CueStart(i, 1)

----------------------------------------------------------------------------
(* Claims about the chunker, checked under SpecChunk *)

\* C27: the planned number of chunks of a video of duration D > 0 is the
\* least n with n * L >= D, and the chunks made are numbered 0, 1, 2, ...
C27_ChunkCountIsCeil ==
    /\ (ck.status # "idle" /\ ck.duration > 0) =>
          /\ ck.total_chunks * 1000 * ck.len >= ck.duration
          /\ (ck.total_chunks - 1) * 1000 * ck.len < ck.duration
    /\ \A k \in DOMAIN ck.chunks :
          /\ ck.chunks[k].index = k - 1
          /\ extract_chunk_number(ck.chunks[k].name) = k - 1

RECURSIVE SumDurations(_)
SumDurations(chunks) ==
    IF chunks = << >> THEN 0
    ELSE Head(chunks).duration + SumDurations(Tail(chunks))

\* C28: when split_video returns, the durations of the chunks add up to the
\* duration of the video, every chunk but the last lasts L, and the last one
\* lasts more than 0 and at most L.
C28_DurationsSumToProbe ==
    ck.status = "done" =>
        /\ SumDurations(ck.chunks) = ck.duration
        /\ \A k \in DOMAIN ck.chunks :
              IF k < Len(ck.chunks)
              THEN ck.chunks[k].duration = 1000 * ck.len
              ELSE /\ ck.chunks[k].duration > 0
                   /\ ck.chunks[k].duration <= 1000 * ck.len

----------------------------------------------------------------------------
(* Claims about rejected videos and cancelled runs, checked under Spec *)

\* C29: once validate_input has rejected the video, and as long as it has
\* not accepted it, no chunk exists and no persisted record of the job shows
\* a stage after Validating.
C29_InvalidVideoStopsAtValidating ==
    ("VALIDATING" \in raisedIn /\ "VALIDATING" \notin completed) =>
        /\ localChunks = {}
        /\ OnDisk => ProcessingStage[PersistedStage]
                        <= ProcessingStage["VALIDATING"]

\* C30: a run resumed from a record that shows Generating, left by a run that
\* was stopped before generate_subtitles returned, with no failure of the
\* environment, executes the Generating stage: it does not skip it.
C30_CancelledGeneratingResumes ==
    ( /\ loadedStage = "GENERATING"
      /\ "GENERATING" \notin doneAtStart
      /\ faults = 0 )
        => "GENERATING" \notin skipped

----------------------------------------------------------------------------
(* Claims about replayed stages, clean-up and the ports, checked under Spec *)

\* C31: replaying a stage repeats no work that was already done: no chunk
\* file that is already there is cut again, and no chunk is uploaded again
\* while its blob is already in the bucket
C31_ReplayRepeatsNoWork == redone = {}

\* C32: once process_job has returned, after success or after the failure of
\* a stage, no file is left under the job's temp directory
C32_TempDirGoneAtExit == pc = "done" => localChunks = {}

\* C33: a step that deletes a blob of the job is a step of the Finalizing
\* handler, and that handler returns normally
C33_OnlyFinalizingDeletes ==
    [][ (blobs \ blobs' # {}) => (InHandler("FINALIZING") /\ pc' = "loop") ]_vars

\* the stage whose handler is running uses the object-store client
UsesClient ==
    \/ InHandler("UPLOADING") /\ Has(job, "chunks") /\ Has(job, "bucket_name")
    \/ /\ InHandler("DOWNLOADING")
       /\ Has(job, "bucket_name")
       /\ Has(job, "generated_subtitles")
       /\ job.metadata["generated_subtitles"] # << >>

\* the stage whose handler is running calls the model
UsesModel ==
    /\ InHandler("GENERATING")
    /\ Has(job, "uploaded_chunks") /\ Has(job, "bucket_name")
    /\ job.metadata["uploaded_chunks"] # << >>

\* C38: in a run that skipped ConnectingStore or InitModel as already
\* completed, a handler that uses the object-store client or the model finds
\* it initialised in its process
C38_PortsInitialisedOnResume ==
    /\ (UsesClient /\ "CONNECTING" \in skipped) => client
    /\ (UsesModel /\ "INITIALIZING" \in skipped) => model

----------------------------------------------------------------------------
(* Claims about job ids and load_job, checked under SpecJobs, and about the
   buckets, checked under SpecBuckets *)

\* C34: two jobs with different ids never have the same bucket, no upload of
\* the one replaces a blob of the other, and no clean-up of the one deletes
\* a blob of the other
C34_BlobsAreJobScoped ==
    \A m, n \in JobNumbers :
        jb.ids[m] # jb.ids[n] =>
            /\ jb.bucket[m] # None => jb.bucket[m] # jb.bucket[n]
            /\ << m, n >> \notin jb.overwritten
            /\ << m, n >> \notin jb.removed

\* C35: the ids of the jobs created are pairwise distinct, and no create_job
\* has written over the record of another job
C35_JobIdsDistinct ==
    /\ \A m, n \in JobNumbers : m # n => jb.ids[m] # jb.ids[n]
    /\ jb.clobbered = {}

\* C39: load_job(id) returns None or the record whose job_id is id
C39_LoadReturnsThatJob ==
    jb.loaded # None =>
        \/ jb.loaded[1].result = None
        \/ jb.loaded[1].result[1].job_id = jb.loaded[1].id

----------------------------------------------------------------------------
(* Claim about TempFileManager, checked under SpecCleanupFair *)

\* C40: every call of cleanup_all returns, with any number of tracked files
\* and directories, and then no path is tracked
C40_CleanupAllReturns ==
    (tm.caller = "cleanup_all") ~>
        (tm.caller = "none" /\ tm.tracked_files \cup tm.tracked_dirs = {})

----------------------------------------------------------------------------
(* Claim about concurrent calls through the breaker, checked under
   SpecProbes *)

\* the calls in flight that entered func while the breaker was OPEN or
\* HALF_OPEN: the probes of a recovery
Probes == { w \in Workers : wk[w].pc = "call" /\ wk[w].tmp # << "CLOSED" >> }

\* C36: while the breaker is HALF_OPEN no second call enters func: at most
\* one probe is in flight
C36_OneProbePerRecovery == Cardinality(Probes) <= 1

----------------------------------------------------------------------------
(* Claim about the model calls of Generating, checked under SpecGenerate *)

\* C37: no invocation of the model is made without an admission by the
\* vertex_ai rate limiter before it
C37_ModelCallsAdmitted == gen.bypassed = 0

====
